---- MODULE Spec2Model ----
(***************************************************************************)
(* Gold Gladiator intraday engine (src/engine.py), as a state machine.     *)
(*                                                                         *)
(* A candle is a record [time, open, high, low, close].  time is minutes   *)
(* since an epoch midnight in New York local time (the time zone           *)
(* _ensure_time_index converts to), prices are integer points.             *)
(* find_intraday_setups is unrolled into steps: Load (sort + group by      *)
(* day), SkipSession / EnterScan (slices, dominant move, classification,   *)
(* FVG zone), ScanContinue / ScanExhausted / ScanConfirm (one iteration of *)
(* the loop of _engulfing_in_window) and RejectRisk / EmitSetup (risk,     *)
(* target, append).                                                        *)
(*                                                                         *)
(* The owner console (src/app.py) is a second state machine, ConsoleSpec:  *)
(* one action per widget event, each a whole run of the script.  The       *)
(* outcome simulator of spec 4.7 is a third, SimSpec: one action per       *)
(* candle walked.  Each specification holds the variables of the other     *)
(* two at rest.                                                            *)
(***************************************************************************)
EXTENDS Integers, Sequences, FiniteSets, TLC

VARIABLES
    df,            \* the input rows, as handed to find_intraday_setups
    r_multiple,    \* params.r_multiple
    pc,            \* "load" | "session" | "scan" | "assemble" | "done"
    day_groups,    \* sequence of [day, day_df], ascending by day
    d,             \* index into day_groups of the day being processed
    s,             \* index into SESSION_WINDOWS of the session being processed
    ctx,           \* locals of the current session iteration
    idx,           \* loop variable of _engulfing_in_window (0-based)
    touched_zone,  \* local of _engulfing_in_window
    prev_open,     \* local of _engulfing_in_window
    prev_close,    \* local of _engulfing_in_window
    eng,           \* value returned by _engulfing_in_window
    all_setups,    \* the list find_intraday_setups returns
    log            \* history: which branch ended each (day, session) iteration

vars == <<df, r_multiple, pc, day_groups, d, s, ctx, idx, touched_zone,
          prev_open, prev_close, eng, all_setups, log>>

\* the owner console (src/app.py)
VARIABLES
    session_state,   \* st.session_state, the keyed text inputs included
    mode,            \* the Execution Mode selectbox
    mt5_lib,         \* the MetaTrader5 module and its terminal link
    run_calls,       \* calls the last run of the script made to mt5 and the engine
    run_blocks,      \* blocks the last run of the script entered
    screen,          \* widgets the last run of the script drew
    last_event,      \* the widget event that started the last run
    last_connect,    \* history: "none" | "succeeded" | "failed", the last Connect attempt
    shutdown_since   \* history: mt5.shutdown() was called since the last successful Connect

console_vars == <<session_state, mode, mt5_lib, run_calls, run_blocks, screen,
                  last_event, last_connect, shutdown_since>>

\* the outcome simulator (spec 4.7)
VARIABLES
    trade,           \* the SimulatedTrade: a TradeSetup and its outcome
    candles,         \* the candles after the confirmation candle
    walk,            \* number of candles walked so far
    trigger          \* history: index of the candle that closed the trade, 0 if none

sim_vars == <<trade, candles, walk, trigger>>

all_vars == <<vars, console_vars, sim_vars>>

\* no console: these variables while another program is modelled
ConsoleOff ==
    /\ session_state = << >>
    /\ mode = ""
    /\ mt5_lib = << >>
    /\ run_calls = << >>
    /\ run_blocks = << >>
    /\ screen = {}
    /\ last_event = << >>
    /\ last_connect = "none"
    /\ shutdown_since = FALSE

\* no simulation
SimulatorOff == trade = << >> /\ candles = << >> /\ walk = 0 /\ trigger = 0

-----------------------------------------------------------------------------
(* Configuration *)

\* a copied row whose name was not changed
SESSION_WINDOWS_copied ==
    << [name |-> "LONDON", start_hour |-> 3, end_hour |-> 5],
       [name |-> "LONDON", start_hour |-> 8, end_hour |-> 10] >>

SESSION_WINDOWS ==
    << [name |-> "LONDON",   start_hour |-> 3, end_hour |-> 5],
       [name |-> "NEW_YORK", start_hour |-> 8, end_hour |-> 10] >>

DOMINANT_MOVE_MIN_POINTS == 150

PRE_WINDOW_LOOKBACK_CANDLES == 60

MANIPULATION_RECENT_CANDLES == 15

MANIPULATION_BOS_MIN_POINTS == 120

DEFAULT_R_MULTIPLE == 3

-----------------------------------------------------------------------------
(* Timestamps and pandas-style indexing *)

Candle(t, o, h, l, c) ==
    [time |-> t, open |-> o, high |-> h, low |-> l, close |-> c]

\* Timestamp of (day, hour, minute), minutes since the epoch midnight.
At(day, hour, minute) == day * 1440 + hour * 60 + minute

\* df.index.date
DateOf(t) == t \div 1440

\* df.index.hour
HourOf(t) == (t % 1440) \div 60

Abs(x) == IF x < 0 THEN -x ELSE x

Max2(a, b) == IF a >= b THEN a ELSE b

Min2(a, b) == IF a <= b THEN a ELSE b

MinOf(S) == CHOOSE x \in S : \A y \in S : x <= y

MaxOf(S) == CHOOSE x \in S : \A y \in S : x >= y

\* seq.iloc[i], 0-based
iloc(seq, i) == seq[i + 1]

\* seq.iloc[a:b], 0-based, b exclusive, clipped to the sequence
islice(seq, a, b) ==
    LET lo == Max2(a, 0)
        hi == Min2(b, Len(seq))
    IN  IF hi <= lo THEN << >> ELSE SubSeq(seq, lo + 1, hi)

\* seq.iloc[-n:]
itail(seq, n) == islice(seq, Len(seq) - n, Len(seq))

\* the frame returned as it is (a sort whose result is dropped)
sort_index_noop(rows) == rows

\* DataFrame.sort_index(): rows in ascending order of time
sort_index(rows) == SortSeq(rows, LAMBDA a, b : a.time < b.time)

-----------------------------------------------------------------------------
(* Utility helpers *)

_ensure_time_index(rows) == sort_index(rows)

RECURSIVE GroupsFrom(_, _)
GroupsFrom(days, rows) ==
    IF days = {} THEN << >>
    ELSE LET day == MinOf(days)
         IN  << [day    |-> day,
                 day_df |-> sort_index(SelectSeq(rows, LAMBDA r : DateOf(r.time) = day))] >>
             \o GroupsFrom(days \ {day}, rows)

RECURSIVE GroupsFromLast(_, _)
GroupsFromLast(days, rows) ==
    IF days = {} THEN << >>
    ELSE LET day == MaxOf(days)
         IN  << [day    |-> day,
                 day_df |-> sort_index(SelectSeq(rows, LAMBDA r : DateOf(r.time) = day))] >>
             \o GroupsFromLast(days \ {day}, rows)

\* the dates yielded latest first
_intraday_groups_descending(rows) ==
    GroupsFromLast({DateOf(rows[i].time) : i \in 1..Len(rows)}, rows)

\* no groupby: all rows in one group under the first date
_intraday_groups_single(rows) ==
    IF rows = << >> THEN << >>
    ELSE << [day |-> DateOf(rows[1].time), day_df |-> sort_index(rows)] >>

\* {date: intraday_df}; groupby yields the dates in ascending order
_intraday_groups(rows) ==
    GroupsFrom({DateOf(rows[i].time) : i \in 1..Len(rows)}, rows)

\* > for >= at the start hour
_session_slice_exclusive_start(day_df, start_hour, end_hour) ==
    SelectSeq(day_df, LAMBDA r : HourOf(r.time) > start_hour /\ HourOf(r.time) < end_hour)

\* <= for < at the end hour
_session_slice_inclusive_end(day_df, start_hour, end_hour) ==
    SelectSeq(day_df, LAMBDA r : HourOf(r.time) >= start_hour /\ HourOf(r.time) <= end_hour)

_session_slice(day_df, start_hour, end_hour) ==
    SelectSeq(day_df, LAMBDA r : HourOf(r.time) >= start_hour /\ HourOf(r.time) < end_hour)

\* <= for <: the first window candle counted as pre-window
_pre_window_slice_inclusive(day_df, window_df) ==
    IF window_df = << >> THEN << >>
    ELSE LET start_time == iloc(window_df, 0).time
         IN  SelectSeq(day_df, LAMBDA r : r.time <= start_time)

_pre_window_slice(day_df, window_df) ==
    IF window_df = << >> THEN << >>
    ELSE LET start_time == iloc(window_df, 0).time
         IN  SelectSeq(day_df, LAMBDA r : r.time < start_time)

-----------------------------------------------------------------------------
(* Dominant move + manipulation classification *)

\* the early return for small moves left out
_calc_dominant_move_no_min(pre_df) ==
    IF pre_df = << >> THEN [direction |-> "NONE", points |-> 0]
    ELSE LET diff == iloc(pre_df, Len(pre_df) - 1).close - iloc(pre_df, 0).open
         IN  [direction |-> IF diff > 0 THEN "BUY" ELSE "SELL", points |-> Abs(diff)]

\* "BUY" if diff < 0
_calc_dominant_move_flipped(pre_df) ==
    IF pre_df = << >> THEN [direction |-> "NONE", points |-> 0]
    ELSE LET diff == iloc(pre_df, Len(pre_df) - 1).close - iloc(pre_df, 0).open
         IN  IF Abs(diff) < DOMINANT_MOVE_MIN_POINTS
             THEN [direction |-> "NONE", points |-> Abs(diff)]
             ELSE [direction |-> IF diff < 0 THEN "BUY" ELSE "SELL", points |-> Abs(diff)]

\* (direction, points); direction "NONE" stands for Python's None
_calc_dominant_move(pre_df) ==
    IF pre_df = << >> THEN [direction |-> "NONE", points |-> 0]
    ELSE LET open_price == iloc(pre_df, 0).open
             last_close == iloc(pre_df, Len(pre_df) - 1).close
             diff == last_close - open_price
             points == Abs(diff)
         IN  IF points < DOMINANT_MOVE_MIN_POINTS
             THEN [direction |-> "NONE", points |-> points]
             ELSE [direction |-> IF diff > 0 THEN "BUY" ELSE "SELL", points |-> points]

\* np.argmin: 0-based position of the first minimum
argmin(vals) ==
    MinOf({i \in 0..(Len(vals) - 1) :
              \A j \in 0..(Len(vals) - 1) : iloc(vals, i) <= iloc(vals, j)})

\* np.argmax: 0-based position of the first maximum
argmax(vals) ==
    MinOf({i \in 0..(Len(vals) - 1) :
              \A j \in 0..(Len(vals) - 1) : iloc(vals, i) >= iloc(vals, j)})

\* near_window with > for >=
_detect_manipulation_and_bos_late_by_one(pre_df, dominant_dir) ==
    IF pre_df = << >> \/ Len(pre_df) < 10 THEN FALSE
    ELSE LET lookback_df == itail(pre_df, PRE_WINDOW_LOOKBACK_CANDLES)
             n == Len(lookback_df)
             highs == [i \in 1..n |-> lookback_df[i].high]
             lows == [i \in 1..n |-> lookback_df[i].low]
             last_close == lookback_df[n].close
         IN  IF dominant_dir = "BUY"
             THEN LET low_idx == argmin(lows)
                      low_price == iloc(lows, low_idx)
                      near_window == low_idx > n - MANIPULATION_RECENT_CANDLES
                      impulse_points == last_close - low_price
                  IN  near_window /\ impulse_points >= MANIPULATION_BOS_MIN_POINTS
             ELSE LET high_idx == argmax(highs)
                      high_price == iloc(highs, high_idx)
                      near_window == high_idx > n - MANIPULATION_RECENT_CANDLES
                      impulse_points == high_price - last_close
                  IN  near_window /\ impulse_points >= MANIPULATION_BOS_MIN_POINTS

\* the guard on the length of the pre-window left out
_detect_manipulation_and_bos_no_min_len(pre_df, dominant_dir) ==
    IF pre_df = << >> THEN FALSE
    ELSE LET lookback_df == itail(pre_df, PRE_WINDOW_LOOKBACK_CANDLES)
             n == Len(lookback_df)
             highs == [i \in 1..n |-> lookback_df[i].high]
             lows == [i \in 1..n |-> lookback_df[i].low]
             last_close == lookback_df[n].close
         IN  IF dominant_dir = "BUY"
             THEN LET low_idx == argmin(lows)
                      low_price == iloc(lows, low_idx)
                      near_window == low_idx >= n - MANIPULATION_RECENT_CANDLES
                      impulse_points == last_close - low_price
                  IN  near_window /\ impulse_points >= MANIPULATION_BOS_MIN_POINTS
             ELSE LET high_idx == argmax(highs)
                      high_price == iloc(highs, high_idx)
                      near_window == high_idx >= n - MANIPULATION_RECENT_CANDLES
                      impulse_points == high_price - last_close
                  IN  near_window /\ impulse_points >= MANIPULATION_BOS_MIN_POINTS

\* is_manipulation_setup (the notes string is display only)
_detect_manipulation_and_bos(pre_df, dominant_dir) ==
    IF pre_df = << >> \/ Len(pre_df) < 10 THEN FALSE
    ELSE LET lookback_df == itail(pre_df, PRE_WINDOW_LOOKBACK_CANDLES)
             n == Len(lookback_df)
             highs == [i \in 1..n |-> lookback_df[i].high]
             lows == [i \in 1..n |-> lookback_df[i].low]
             last_close == lookback_df[n].close
         IN  IF dominant_dir = "BUY"
             THEN LET low_idx == argmin(lows)
                      low_price == iloc(lows, low_idx)
                      near_window == low_idx >= n - MANIPULATION_RECENT_CANDLES
                      impulse_points == last_close - low_price
                  IN  near_window /\ impulse_points >= MANIPULATION_BOS_MIN_POINTS
             ELSE LET high_idx == argmax(highs)
                      high_price == iloc(highs, high_idx)
                      near_window == high_idx >= n - MANIPULATION_RECENT_CANDLES
                      impulse_points == high_price - last_close
                  IN  near_window /\ impulse_points >= MANIPULATION_BOS_MIN_POINTS

_setup_type(is_manip) ==
    IF is_manip THEN "SETUP_2_MANIPULATION_BOS" ELSE "SETUP_1_CLEAN_DISTRIBUTION"

-----------------------------------------------------------------------------
(* FVG + engulfing detection (entry logic) *)

NoZone == [found |-> FALSE, zone_low |-> 0, zone_high |-> 0]

\* the test the loop of _find_recent_fvg_zone applies at creating-candle index i
_fvg_at(pre_df, direction, i) ==
    IF direction = "BUY"
    THEN iloc(pre_df, i + 1).low > iloc(pre_df, i - 1).high
    ELSE iloc(pre_df, i - 1).low > iloc(pre_df, i + 1).high

\* the two bounds returned in the other order
_fvg_bounds_swapped(pre_df, direction, i) ==
    IF direction = "BUY"
    THEN [found |-> TRUE, zone_low |-> iloc(pre_df, i + 1).low,
                          zone_high |-> iloc(pre_df, i - 1).high]
    ELSE [found |-> TRUE, zone_low |-> iloc(pre_df, i - 1).low,
                          zone_high |-> iloc(pre_df, i + 1).high]

\* the (zone_low, zone_high) the loop returns at index i
_fvg_bounds(pre_df, direction, i) ==
    IF direction = "BUY"
    THEN [found |-> TRUE, zone_low |-> iloc(pre_df, i - 1).high,
                          zone_high |-> iloc(pre_df, i + 1).low]
    ELSE [found |-> TRUE, zone_low |-> iloc(pre_df, i + 1).high,
                          zone_high |-> iloc(pre_df, i - 1).low]

\* range(last_idx - 1, 1, -1): last_idx - 1 down to 2
_fvg_scan_range(pre_df) ==
    LET last_idx == Len(pre_df) - 1
    IN  {i \in 0..last_idx : i <= last_idx - 1 /\ i > 1}

_find_recent_fvg_zone(pre_df, direction) ==
    IF Len(pre_df) < 3 THEN NoZone
    ELSE LET hits == {i \in _fvg_scan_range(pre_df) : _fvg_at(pre_df, direction, i)}
         IN  IF hits = {} THEN NoZone
             ELSE _fvg_bounds(pre_df, direction, MaxOf(hits))

\* `or` for `and`
_traded_into_zone_either(row, direction, fvg_zone) ==
    row.low <= fvg_zone.zone_high \/ row.high >= fvg_zone.zone_low

\* "Has price traded into the FVG zone yet?" for one row
_traded_into_zone(row, direction, fvg_zone) ==
    IF direction = "BUY"
    THEN row.low <= fvg_zone.zone_high /\ row.high >= fvg_zone.zone_low
    ELSE row.high >= fvg_zone.zone_low /\ row.low <= fvg_zone.zone_high

\* body_curr < body_prev * 0.7, on integer points
_tiny_body(o, c, p_open, p_close) ==
    10 * Abs(c - o) < 7 * Abs(p_close - p_open)

_engulfs(direction, o, c, p_open, p_close) ==
    IF direction = "BUY"
    THEN (c > o) /\ (c >= p_open) /\ (o <= p_close)
    ELSE (c < o) /\ (c <= p_open) /\ (o >= p_close)

\* the slice stops before the confirmation row
_recent_rows_before(window_df, i) == islice(window_df, Max2(0, i - 3), i)

\* window_df.iloc[max(0, idx - 3): idx + 1]
_recent_rows(window_df, i) == islice(window_df, Max2(0, i - 3), i + 1)

\* the BUY and SELL branches exchanged
_stop_price_swapped(window_df, i, direction) ==
    LET recent == _recent_rows(window_df, i)
    IN  IF direction = "BUY"
        THEN MaxOf({recent[k].high : k \in 1..Len(recent)})
        ELSE MinOf({recent[k].low : k \in 1..Len(recent)})

_stop_price(window_df, i, direction) ==
    LET recent == _recent_rows(window_df, i)
    IN  IF direction = "BUY"
        THEN MinOf({recent[k].low : k \in 1..Len(recent)})
        ELSE MaxOf({recent[k].high : k \in 1..Len(recent)})

NoEng == [found |-> FALSE, trade_time |-> 0, entry |-> 0, stop |-> 0, idx |-> 0]

\* the open returned as the entry price
_engulfing_row_entry_open(window_df, i, direction, fvg_zone, touched, p_open, p_close) ==
    LET row == iloc(window_df, i)
        touched_now == touched \/ _traded_into_zone(row, direction, fvg_zone)
        confirmed == /\ touched_now
                     /\ ~_tiny_body(row.open, row.close, p_open, p_close)
                     /\ _engulfs(direction, row.open, row.close, p_open, p_close)
    IN  [touched_zone |-> touched_now,
         eng |-> IF confirmed
                 THEN [found |-> TRUE, trade_time |-> row.time, entry |-> row.open,
                       stop |-> _stop_price(window_df, i, direction), idx |-> i]
                 ELSE NoEng]

\* touched_zone recomputed from each row alone
_engulfing_row_touch_forgets(window_df, i, direction, fvg_zone, touched, p_open, p_close) ==
    LET row == iloc(window_df, i)
        touched_now == _traded_into_zone(row, direction, fvg_zone)
        confirmed == /\ touched_now
                     /\ ~_tiny_body(row.open, row.close, p_open, p_close)
                     /\ _engulfs(direction, row.open, row.close, p_open, p_close)
    IN  [touched_zone |-> touched_now,
         eng |-> IF confirmed
                 THEN [found |-> TRUE, trade_time |-> row.time, entry |-> row.close,
                       stop |-> _stop_price(window_df, i, direction), idx |-> i]
                 ELSE NoEng]

\* One iteration of the for loop of _engulfing_in_window at row i:
\* the new touched_zone and, when the iteration returns, the returned tuple.
_engulfing_row(window_df, i, direction, fvg_zone, touched, p_open, p_close) ==
    LET row == iloc(window_df, i)
        touched_now == touched \/ _traded_into_zone(row, direction, fvg_zone)
        confirmed == /\ touched_now
                     /\ ~_tiny_body(row.open, row.close, p_open, p_close)
                     /\ _engulfs(direction, row.open, row.close, p_open, p_close)
    IN  [touched_zone |-> touched_now,
         eng |-> IF confirmed
                 THEN [found |-> TRUE, trade_time |-> row.time, entry |-> row.close,
                       stop |-> _stop_price(window_df, i, direction), idx |-> i]
                 ELSE NoEng]

-----------------------------------------------------------------------------
(* Signal assembly in find_intraday_setups *)

_risk_points(direction, entry, stop) ==
    IF direction = "BUY" THEN entry - stop ELSE stop - entry

\* the SELL branch copied from the BUY branch
_target_same_sign(direction, entry, stop, r) ==
    entry + _risk_points(direction, entry, stop) * r

_target(direction, entry, stop, r) ==
    IF direction = "BUY"
    THEN entry + _risk_points(direction, entry, stop) * r
    ELSE entry - _risk_points(direction, entry, stop) * r

\* the guard with < for <=
_risk_rejected_strict(risk_points) == risk_points < 0

\* "if risk_points <= 0: continue"
_risk_rejected(risk_points) == risk_points <= 0

TradeSetup(c, e, day, target) ==
    [session_name |-> c.session_name,
     setup_type |-> c.setup_type,
     direction |-> c.dominant_dir,
     entry |-> e.entry,
     stop |-> e.stop,
     target |-> target,
     trade_time |-> e.trade_time,
     day |-> day,
     dominant_move_direction |-> c.dominant_dir,
     dominant_move_points |-> c.move_points]

-----------------------------------------------------------------------------
(* Input families.  A shape is a candle without its timestamp.             *)

Shape(o, h, l, c) == [open |-> o, high |-> h, low |-> l, close |-> c]

\* a candle without wicks
Bar(o, c) == Shape(o, Max2(o, c), Min2(o, c), c)

\* the same price action upside down (prices reflected about 200)
Mirror(sh) == Shape(400 - sh.open, 400 - sh.low, 400 - sh.high, 400 - sh.close)

MirrorAll(shs) == [i \in 1..Len(shs) |-> Mirror(shs[i])]

\* M15 rows from hour:00 of the given day on
Rows(day, hour, shs) ==
    [i \in 1..Len(shs) |->
        Candle(At(day, hour, 0) + 15 * (i - 1),
               shs[i].open, shs[i].high, shs[i].low, shs[i].close)]

\* rows every step minutes from hour:00 of the given day on
RowsEvery(day, hour, step, shs) ==
    [i \in 1..Len(shs) |->
        Candle(At(day, hour, 0) + step * (i - 1),
               shs[i].open, shs[i].high, shs[i].low, shs[i].close)]

\* M1 rows ending one minute before hour:00 of the given day
RowsUntil(day, hour, shs) ==
    [i \in 1..Len(shs) |->
        Candle(At(day, hour, 0) - Len(shs) + (i - 1),
               shs[i].open, shs[i].high, shs[i].low, shs[i].close)]

\* all sequences of length n over S
SeqsOf(S, n) == [1..n -> S]

PreLen == 4

WinLen == 3

MaxDays == 2

\* pre-window candles: two price ranges, rising or falling, and a higher one
PreCat == {Bar(50, 150), Bar(150, 50), Bar(250, 350), Bar(350, 250), Bar(300, 400)}

\* a rising pre-window with a bullish gap (150, 250) created at index 2
PreBuy == << Bar(50, 150), Bar(50, 150), Bar(250, 350), Bar(250, 350) >>

PreSell == MirrorAll(PreBuy)

\* a pre-window whose open-to-close move is 100 points
PreFlat == << Bar(150, 50), Bar(50, 150), Bar(350, 250), Bar(350, 250) >>

\* retrace from above into (150, 250), then a bullish engulfing candle
WinBuy == << Bar(350, 300), Bar(300, 200), Bar(200, 350) >>

WinSell == MirrorAll(WinBuy)

\* a bullish engulfing candle whose low is above its open: risk 0
WinBad == << Bar(250, 350), Shape(150, 250, 250, 250) >>

LongLen == 5

\* window candles for long BUY scans: a deep wick through the zone, a
\* falling candle above the zone, a bullish engulfing candle from the zone
LongCatBuy == {Shape(350, 350, 100, 300), Bar(350, 300), Bar(200, 350)}

LongCatSell == {Mirror(sh) : sh \in LongCatBuy}

\* window candles for a BUY scan of the zone (150, 250); the last one
\* breaks the OHLC invariant (low above open)
WinCatBuy ==
    { Bar(350, 300), Bar(300, 200), Bar(200, 350),
      Shape(350, 350, 250, 300), Shape(300, 400, 300, 400),
      Bar(250, 350), Shape(150, 250, 250, 250) }

WinCatSell == {Mirror(sh) : sh \in WinCatBuy}

\* one day, London only: every pre-window over PreCat, followed by the
\* window that confirms in the direction of the pre-window's move
FamilyZone ==
    { Rows(0, 1, pre) \o
      Rows(0, 3, IF pre[PreLen].close >= pre[1].open THEN WinBuy ELSE WinSell) :
        pre \in SeqsOf(PreCat, PreLen) }

\* one day, London only: a fixed pre-window, every window over the catalogue
FamilyScan ==
    { Rows(0, 1, PreBuy) \o Rows(0, 3, win) : win \in SeqsOf(WinCatBuy, WinLen) }
    \cup
    { Rows(0, 1, PreSell) \o Rows(0, 3, win) : win \in SeqsOf(WinCatSell, WinLen) }

\* a day with a pre-window, an optional London window and a New York window
DayTemplates ==
    { [pre |-> p, london |-> l, new_york |-> n] :
        p \in {PreBuy, PreSell, PreFlat},
        l \in {WinBuy, WinSell, WinBad, << >>},
        n \in {WinBuy, WinSell} }

DayRows(day, tpl) ==
    Rows(day, 1, tpl.pre) \o Rows(day, 3, tpl.london) \o Rows(day, 8, tpl.new_york)

RECURSIVE ConcatDays(_, _)
\* the rows of days 0..n-1 in calendar order
ConcatDays(tpls, n) ==
    IF n = 0 THEN << >>
    ELSE ConcatDays(tpls, n - 1) \o DayRows(n - 1, tpls[n])

RECURSIVE ConcatDaysRev(_, _)
\* the same rows, latest day first (an unsorted input)
ConcatDaysRev(tpls, n) ==
    IF n = 0 THEN << >>
    ELSE DayRows(n - 1, tpls[n]) \o ConcatDaysRev(tpls, n - 1)

\* one day, every template
FamilyDay == { DayRows(0, tpl) : tpl \in DayTemplates }

\* the templates used for runs of several days
CoreDays ==
    { [pre |-> PreBuy,  london |-> WinBuy,  new_york |-> WinBuy],
      [pre |-> PreSell, london |-> WinSell, new_york |-> WinSell],
      [pre |-> PreFlat, london |-> WinBuy,  new_york |-> WinBuy],
      [pre |-> PreBuy,  london |-> WinBad,  new_york |-> WinSell] }

\* two to MaxDays days over CoreDays, rows in calendar order or reversed
FamilyDays ==
    UNION { { ConcatDays(tpls, n) : tpls \in SeqsOf(CoreDays, n) } \cup
            { ConcatDaysRev(tpls, n) : tpls \in SeqsOf(CoreDays, n) }
            : n \in 2..MaxDays }

\* one day, London only: a fixed pre-window and a window of LongLen candles
FamilyLong ==
    { Rows(0, 1, PreBuy) \o Rows(0, 3, win) : win \in SeqsOf(LongCatBuy, LongLen) }
    \cup
    { Rows(0, 1, PreSell) \o Rows(0, 3, win) : win \in SeqsOf(LongCatSell, LongLen) }

EdgeLen == 6

\* one day of M30 candles: a fixed pre-window 01:00-02:30, then EdgeLen
\* candles from 03:00 on, running past the end of the London window at
\* 05:00; each is a falling candle above the zone or a bullish engulfing
\* candle from inside the zone
FamilyEdge ==
    { RowsEvery(0, 1, 30, PreBuy) \o RowsEvery(0, 3, 30, win) :
        win \in SeqsOf({Bar(350, 300), Bar(200, 350)}, EdgeLen) }

\* a rising pre-window of n candles (n >= 5): open 100, then candles at
\* 250 with one wick down to lowp at position p (1-based), closing at 350
\* over a bullish gap (250, 300) created by the last candle but one
ManipPre(n, p, lowp) ==
    [i \in 1..n |->
        IF i = 1 THEN Bar(100, 250)
        ELSE IF i = n THEN Bar(300, 350)
        ELSE IF i = n - 1 THEN Bar(250, 350)
        ELSE IF i = p THEN Shape(250, 250, lowp, 250)
        ELSE Shape(250, 250, 250, 250)]

\* pre-window lengths around the minimum of 10 candles, the recency of 15
\* and the lookback of 60
ManipLens == {9, 10, 15, 16, 20, 60, 61, 70}

\* wick positions: early, around the start of the final 15 positions, late
ManipPositions(n) == {p \in {2, n - 16, n - 15, n - 14, n - 2} : 2 <= p /\ p <= n - 2}

\* wick lows: below, equal to and above the low of the first candle; the
\* last three are 130, 120 and 110 points under the last close
ManipLows == {50, 100, 220, 230, 240}

\* one day: every ManipPre (and its mirror image) as M1 candles up to
\* 02:59, followed by the confirming window in London and in New York
FamilyManip ==
    UNION { { RowsUntil(0, 3, ManipPre(n, p, lowp))
                  \o Rows(0, 3, WinBuy) \o Rows(0, 8, WinBuy) :
                p \in ManipPositions(n), lowp \in ManipLows } \cup
            { RowsUntil(0, 3, MirrorAll(ManipPre(n, p, lowp)))
                  \o Rows(0, 3, WinSell) \o Rows(0, 8, WinSell) :
                p \in ManipPositions(n), lowp \in ManipLows }
            : n \in ManipLens }

\* pre-window candles for FamilyBadPre; the second one has its high below
\* its low
BadPreCat == {Bar(50, 150), Shape(250, 200, 300, 350), Bar(250, 350)}

\* one day, London only: every pre-window of four candles over BadPreCat
\* (and its mirror image), followed by the confirming window
FamilyBadPre ==
    { Rows(0, 1, pre) \o Rows(0, 3, WinBuy) : pre \in SeqsOf(BadPreCat, 4) }
    \cup
    { Rows(0, 1, MirrorAll(pre)) \o Rows(0, 3, WinSell) : pre \in SeqsOf(BadPreCat, 4) }

\* the rows in the opposite order
Reverse(rows) == [i \in 1..Len(rows) |-> rows[Len(rows) + 1 - i]]

\* the rows with row k given twice
Repeat(rows, k) == SubSeq(rows, 1, k) \o SubSeq(rows, k, Len(rows))

\* a rising pre-window, then a window whose third candle has its low above
\* its open and is a bullish engulfing candle from inside the zone
DayBadConfirmation ==
    Rows(0, 1, PreBuy)
    \o Rows(0, 3, << Bar(300, 200), Bar(250, 350), Shape(150, 250, 250, 250) >>)

\* series no check is made on: one day given latest candle first, with one
\* of the four pre-window candles given twice, or both
FamilyUnchecked ==
    UNION { {Reverse(rows)} \cup
            { Repeat(rows, k) : k \in 1..4 } \cup
            { Reverse(Repeat(rows, k)) : k \in 1..4 }
            : rows \in { DayRows(0, tpl) : tpl \in CoreDays } \cup {DayBadConfirmation} }

Inputs ==
    FamilyZone \cup FamilyScan \cup FamilyLong \cup FamilyDay \cup FamilyDays
    \cup FamilyEdge \cup FamilyManip \cup FamilyBadPre \cup FamilyUnchecked

\* params.r_multiple: the default, and 4 on the one-day template inputs
RMultiples(rows) ==
    IF rows \in FamilyDay THEN {DEFAULT_R_MULTIPLE, DEFAULT_R_MULTIPLE + 1}
    ELSE {DEFAULT_R_MULTIPLE}

-----------------------------------------------------------------------------
(* Locals of the session loop *)

NoCtx ==
    [session_name |-> "", window_df |-> << >>, pre_df |-> << >>,
     dominant_dir |-> "NONE", move_points |-> 0, setup_type |-> "",
     fvg_zone |-> NoZone]

\* the locals of one iteration of the session loop, up to step 3
SessionCtx(day_df, sw) ==
    LET window_df == _session_slice(day_df, sw.start_hour, sw.end_hour)
        pre_df == _pre_window_slice(day_df, window_df)
        dm == _calc_dominant_move(pre_df)
    IN  [session_name |-> sw.name,
         window_df |-> window_df,
         pre_df |-> pre_df,
         dominant_dir |-> dm.direction,
         move_points |-> dm.points,
         setup_type |-> IF dm.direction = "NONE" THEN ""
                        ELSE _setup_type(_detect_manipulation_and_bos(pre_df, dm.direction)),
         fvg_zone |-> IF dm.direction = "NONE" THEN NoZone
                      ELSE _find_recent_fvg_zone(pre_df, dm.direction)]

\* the `continue` (or the None of _engulfing_in_window) that ends the
\* iteration before the scan loop starts; "" when the loop is entered
SkipReason(c) ==
    IF c.window_df = << >> THEN "NO_WINDOW"
    ELSE IF c.pre_df = << >> THEN "NO_PRE_WINDOW"
    ELSE IF c.dominant_dir = "NONE" THEN "NO_BIAS"
    ELSE IF ~c.fvg_zone.found THEN "NO_ZONE"
    ELSE IF Len(c.window_df) < 2 THEN "WINDOW_EXHAUSTED"
    ELSE ""

-----------------------------------------------------------------------------
(* find_intraday_setups as a function of its arguments *)

RECURSIVE _engulfing_in_window_from(_, _, _, _, _, _, _)
\* the for loop of _engulfing_in_window from row i on
_engulfing_in_window_from(window_df, direction, fvg_zone, i, touched, p_open, p_close) ==
    IF i >= Len(window_df) THEN NoEng
    ELSE LET res == _engulfing_row(window_df, i, direction, fvg_zone,
                                   touched, p_open, p_close)
         IN  IF res.eng.found THEN res.eng
             ELSE _engulfing_in_window_from(window_df, direction, fvg_zone, i + 1,
                                            res.touched_zone,
                                            iloc(window_df, i).open,
                                            iloc(window_df, i).close)

_engulfing_in_window(window_df, direction, fvg_zone) ==
    IF Len(window_df) < 2 THEN NoEng
    ELSE _engulfing_in_window_from(window_df, direction, fvg_zone, 1, FALSE,
                                   iloc(window_df, 0).open, iloc(window_df, 0).close)

\* what one iteration of the session loop appends to all_setups
_session_setups(day, day_df, sw, r) ==
    LET c == SessionCtx(day_df, sw)
        e == _engulfing_in_window(c.window_df, c.dominant_dir, c.fvg_zone)
    IN  IF SkipReason(c) # "" THEN << >>
        ELSE IF ~e.found THEN << >>
        ELSE IF _risk_rejected(_risk_points(c.dominant_dir, e.entry, e.stop)) THEN << >>
        ELSE << TradeSetup(c, e, day, _target(c.dominant_dir, e.entry, e.stop, r)) >>

RECURSIVE _day_setups(_, _, _)
\* the session loop for one day, from session k on
_day_setups(group, r, k) ==
    IF k > Len(SESSION_WINDOWS) THEN << >>
    ELSE _session_setups(group.day, group.day_df, SESSION_WINDOWS[k], r)
         \o _day_setups(group, r, k + 1)

RECURSIVE _groups_setups(_, _, _)
\* the day loop, from group k on
_groups_setups(groups, r, k) ==
    IF k > Len(groups) THEN << >>
    ELSE _day_setups(groups[k], r, 1) \o _groups_setups(groups, r, k + 1)

\* the list find_intraday_setups returns for the rows df and params.r_multiple
find_intraday_setups(rows, r) ==
    _groups_setups(_intraday_groups(_ensure_time_index(rows)), r, 1)

-----------------------------------------------------------------------------
(* find_intraday_setups as a state machine *)

LogEntry(c, outcome) ==
    [day |-> day_groups[d].day, session_name |-> c.session_name, outcome |-> outcome,
     dominant_dir |-> c.dominant_dir, setup_type |-> c.setup_type,
     fvg_zone |-> c.fvg_zone, touched_zone |-> touched_zone']

\* next iteration of "for session ..." inside "for day_ts, day_df ..."
NextIteration ==
    /\ ctx' = NoCtx
    /\ idx' = 0
    /\ prev_open' = 0
    /\ prev_close' = 0
    /\ eng' = NoEng
    /\ IF s < Len(SESSION_WINDOWS)
       THEN /\ s' = s + 1
            /\ d' = d
            /\ pc' = "session"
       ELSE /\ s' = 1
            /\ d' = d + 1
            /\ pc' = IF d + 1 <= Len(day_groups) THEN "session" ELSE "done"

Init ==
    /\ ConsoleOff
    /\ SimulatorOff
    /\ df \in Inputs
    /\ r_multiple \in RMultiples(df)
    /\ pc = "load"
    /\ day_groups = << >>
    /\ d = 1
    /\ s = 1
    /\ ctx = NoCtx
    /\ idx = 0
    /\ touched_zone = FALSE
    /\ prev_open = 0
    /\ prev_close = 0
    /\ eng = NoEng
    /\ all_setups = << >>
    /\ log = << >>

\* df = _ensure_time_index(df); day_groups = _intraday_groups(df)
Load ==
    /\ pc = "load"
    /\ day_groups' = _intraday_groups(_ensure_time_index(df))
    /\ pc' = IF day_groups' = << >> THEN "done" ELSE "session"
    /\ UNCHANGED <<console_vars, sim_vars>>
    /\ UNCHANGED <<df, r_multiple, d, s, ctx, idx, touched_zone, prev_open,
                   prev_close, eng, all_setups, log>>

\* an iteration that ends at one of the `continue`s before the scan loop
SkipSession ==
    /\ pc = "session"
    /\ LET c == SessionCtx(day_groups[d].day_df, SESSION_WINDOWS[s])
       IN  /\ SkipReason(c) # ""
           /\ touched_zone' = FALSE
           /\ log' = Append(log, LogEntry(c, SkipReason(c)))
    /\ NextIteration
    /\ UNCHANGED <<console_vars, sim_vars>>
    /\ UNCHANGED <<df, r_multiple, day_groups, all_setups>>

\* steps 1-3 succeed and _engulfing_in_window reaches its for loop
EnterScan ==
    /\ pc = "session"
    /\ LET c == SessionCtx(day_groups[d].day_df, SESSION_WINDOWS[s])
       IN  /\ SkipReason(c) = ""
           /\ ctx' = c
           /\ prev_open' = iloc(c.window_df, 0).open
           /\ prev_close' = iloc(c.window_df, 0).close
    /\ touched_zone' = FALSE
    /\ idx' = 1
    /\ pc' = "scan"
    /\ UNCHANGED <<console_vars, sim_vars>>
    /\ UNCHANGED <<df, r_multiple, day_groups, d, s, eng, all_setups, log>>

ScanResult ==
    _engulfing_row(ctx.window_df, idx, ctx.dominant_dir, ctx.fvg_zone,
                   touched_zone, prev_open, prev_close)

\* an iteration of the for loop that does not return, with rows left
ScanContinue ==
    /\ pc = "scan"
    /\ ~ScanResult.eng.found
    /\ idx + 1 < Len(ctx.window_df)
    /\ touched_zone' = ScanResult.touched_zone
    /\ prev_open' = iloc(ctx.window_df, idx).open
    /\ prev_close' = iloc(ctx.window_df, idx).close
    /\ idx' = idx + 1
    /\ UNCHANGED <<console_vars, sim_vars>>
    /\ UNCHANGED <<df, r_multiple, pc, day_groups, d, s, ctx, eng, all_setups, log>>

\* the last iteration does not return: _engulfing_in_window returns None
ScanExhausted ==
    /\ pc = "scan"
    /\ ~ScanResult.eng.found
    /\ idx + 1 >= Len(ctx.window_df)
    /\ touched_zone' = ScanResult.touched_zone
    /\ log' = Append(log, LogEntry(ctx, "WINDOW_EXHAUSTED"))
    /\ NextIteration
    /\ UNCHANGED <<console_vars, sim_vars>>
    /\ UNCHANGED <<df, r_multiple, day_groups, all_setups>>

\* the iteration returns (row.name, c, stop)
ScanConfirm ==
    /\ pc = "scan"
    /\ ScanResult.eng.found
    /\ touched_zone' = ScanResult.touched_zone
    /\ eng' = ScanResult.eng
    /\ pc' = "assemble"
    /\ UNCHANGED <<console_vars, sim_vars>>
    /\ UNCHANGED <<df, r_multiple, day_groups, d, s, ctx, idx, prev_open,
                   prev_close, all_setups, log>>

\* "if risk_points <= 0: continue"
RejectRisk ==
    /\ pc = "assemble"
    /\ _risk_rejected(_risk_points(ctx.dominant_dir, eng.entry, eng.stop))
    /\ touched_zone' = touched_zone
    /\ log' = Append(log, LogEntry(ctx, "RISK_REJECTED"))
    /\ NextIteration
    /\ UNCHANGED <<console_vars, sim_vars>>
    /\ UNCHANGED <<df, r_multiple, day_groups, all_setups>>

\* all_setups.append(setup)
EmitSetup ==
    /\ pc = "assemble"
    /\ ~_risk_rejected(_risk_points(ctx.dominant_dir, eng.entry, eng.stop))
    /\ all_setups' = Append(all_setups,
                            TradeSetup(ctx, eng, day_groups[d].day,
                                       _target(ctx.dominant_dir, eng.entry, eng.stop,
                                               r_multiple)))
    /\ touched_zone' = touched_zone
    /\ log' = Append(log, LogEntry(ctx, "SIGNAL_EMITTED"))
    /\ NextIteration
    /\ UNCHANGED <<console_vars, sim_vars>>
    /\ UNCHANGED <<df, r_multiple, day_groups>>

Next ==
    \/ Load
    \/ SkipSession
    \/ EnterScan
    \/ ScanContinue
    \/ ScanExhausted
    \/ ScanConfirm
    \/ RejectRisk
    \/ EmitSetup

Spec == Init /\ [][Next]_vars

-----------------------------------------------------------------------------
(* Owner console (src/app.py).  One action is one run of the script, which   *)
(* Streamlit starts again from the top after each widget event: main() and   *)
(* the blocks it calls are operators from the state st before the run and    *)
(* the event ev that started it to the state after it.  Text is a sequence   *)
(* of characters, None is the empty tuple and a present value x is <<x>>.    *)

Digits == {"7"}

MaxText == 2

MaxScans == 1

\* the texts of at most n characters over the characters cs
Texts(cs, n) == UNION {[1..k -> cs] : k \in 0..n}

None == << >>

Some(x) == << x >>

RECURSIVE lstrip(_)
lstrip(t) == IF t # << >> /\ Head(t) = " " THEN lstrip(Tail(t)) ELSE t

RECURSIVE rstrip(_)
rstrip(t) ==
    IF t # << >> /\ t[Len(t)] = " " THEN rstrip(SubSeq(t, 1, Len(t) - 1)) ELSE t

\* str.strip()
strip(t) == rstrip(lstrip(t))

\* int(text) raises ValueError unless text is digits between blanks
int_raises(t) ==
    strip(t) = << >> \/ \E i \in 1..Len(strip(t)) : strip(t)[i] \notin Digits

DigitValue(c) == CASE c = "7" -> 7

RECURSIVE int_digits(_)
int_digits(t) ==
    IF t = << >> THEN 0
    ELSE 10 * int_digits(SubSeq(t, 1, Len(t) - 1)) + DigitValue(t[Len(t)])

\* int(text)
int_of(t) == int_digits(strip(t))

\* "if not st.session_state[...]" initialisation at the top of the script
InitialSessionState ==
    [logged_in |-> FALSE, username |-> << >>, mt5_connected |-> FALSE,
     mt5_login |-> None, mt5_server |-> None, risk_perc |-> 100,
     engine_risk_per_trade_pct |-> 100,
     last_scan_signals |-> << >>, last_scan_time |-> None,
     mt5_login_input |-> << >>, mt5_password_input |-> << >>,
     mt5_server_input |-> << >>]

Modes == {"Paper / Monitor Only", "Live (send orders later)"}

\* the MetaTrader5 module: absent (mt5 is None), or a terminal link that is
\* initialized or not and logged into an account or not
MT5Down(available) == [available |-> available, initialized |-> FALSE, account |-> None]

mt5_shutdown(lib) == [lib EXCEPT !.initialized = FALSE, !.account = None]

Call(st, name) == [st EXCEPT !.run_calls = Append(@, name)]

Render(st, widgets) == [st EXCEPT !.screen = @ \cup widgets]

Enter(st, block) == [st EXCEPT !.run_blocks = Append(@, block)]

NoEvent == [kind |-> "none"]

\* the owner is turned away: a blank username or a blank password
login_refused_both_blank(username, password) ==
    strip(username) = << >> /\ strip(password) = << >>

\* username.strip() == "" or password.strip() == ""
login_refused(username, password) ==
    strip(username) = << >> \/ strip(password) = << >>

show_login_screen(st, ev) ==
    LET a == Render(Enter(st, "show_login_screen"), {"login_form"})
    IN  IF ev.kind = "login_submit" /\ ~login_refused(ev.username, ev.password)
        THEN [a EXCEPT !.session_state.logged_in = TRUE,
                       !.session_state.username = strip(ev.username),
                       !.rerun = TRUE]
        ELSE a

\* the slider and the selectbox; the value returned is st.mode
risk_and_mode_block(st, ev) ==
    LET a == Render(Enter(st, "risk_and_mode_block"), {"risk", "mode"})
        risk == IF ev.kind = "risk" THEN ev.risk ELSE a.session_state.risk_perc
    IN  [a EXCEPT !.session_state.risk_perc = risk,
                  !.session_state.engine_risk_per_trade_pct = risk,
                  !.mode = IF ev.kind = "mode" THEN ev.mode ELSE @]

MT5Fields == {"mt5_login_input", "mt5_password_input", "mt5_server_input"}

\* what the owner types into an MT5 field: nothing, a number, or a word
FieldTexts(f) ==
    IF f = "mt5_login_input" THEN Texts({"7", "j"}, 1) ELSE Texts({"j"}, 1)

\* the body of "if st.button('Connect / Test MT5')"
connect_click(st, ev) ==
    LET login == st.session_state.mt5_login_input
        password == st.session_state.mt5_password_input
        server == st.session_state.mt5_server_input
    IN  IF login = << >> \/ password = << >> \/ server = << >>
        THEN st
        ELSE
          LET a == Call([st EXCEPT !.mt5_lib = mt5_shutdown(@),
                                   !.last_connect = "failed",
                                   !.shutdown_since = TRUE], "mt5.shutdown")
              b == Call(a, "mt5.initialize")
          IN  IF ~ev.initialize_ok
              THEN Call(b, "mt5.last_error")
              ELSE
                LET c == [b EXCEPT !.mt5_lib.initialized = TRUE]
                IN  IF int_raises(login)
                    THEN [c EXCEPT !.raised = TRUE]
                    ELSE
                      LET e == Call(c, "mt5.login")
                      IN  IF ~ev.login_ok
                          THEN Call(e, "mt5.last_error")
                          ELSE
                            LET f == Call([e EXCEPT !.mt5_lib.account = Some(int_of(login))],
                                          "mt5.account_info")
                            IN  IF ~ev.account_info_ok
                                THEN f
                                ELSE [f EXCEPT !.session_state.mt5_connected = TRUE,
                                               !.session_state.mt5_login = Some(int_of(login)),
                                               !.session_state.mt5_server = Some(server),
                                               !.last_connect = "succeeded",
                                               !.shutdown_since = FALSE]

\* the body of "if st.button('Clear MT5 Details')"
clear_click(st) ==
    Call([st EXCEPT !.session_state.mt5_connected = FALSE,
                    !.session_state.mt5_login = None,
                    !.session_state.mt5_server = None,
                    !.mt5_lib = mt5_shutdown(@),
                    !.shutdown_since = TRUE], "mt5.shutdown")

connect_mt5_block(st, ev) ==
    LET a == Enter(st, "connect_mt5_block")
    IN  IF ~a.mt5_lib.available
        THEN a
        ELSE
          LET b == Render(IF ev.kind = "edit"
                          THEN [a EXCEPT !.session_state[ev.field] = ev.text]
                          ELSE a,
                          {"mt5_fields", "connect"})
              c == IF ev.kind = "connect" THEN connect_click(b, ev) ELSE b
          IN  IF c.raised
              THEN c
              ELSE IF ev.kind = "clear" THEN clear_click(Render(c, {"clear"}))
                   ELSE Render(c, {"clear"})

\* engine.get_account_snapshot(): reads the account from MT5
get_account_snapshot(st) ==
    Call(Call(st, "engine.get_account_snapshot"), "mt5.account_info")

session_overview_block(st, ev) ==
    LET a == Enter(st, "session_overview_block")
    IN  IF ~a.session_state.mt5_connected THEN a ELSE get_account_snapshot(a)

\* engine.scan_gold_momentum(): finds the gold symbol and pulls M15 candles
scan_gold_momentum(st) ==
    Call(Call(Call(st, "engine.scan_gold_momentum"), "mt5.symbols_get"),
         "mt5.copy_rates_from_pos")

\* dt.datetime.now(), as the number of the scan
now(st) ==
    IF st.session_state.last_scan_time = None THEN 1
    ELSE st.session_state.last_scan_time[1] + 1

\* the suggestions sent as orders when the mode is Live
scanner_block_live_orders(st, ev) ==
    LET a == Enter(st, "scanner_block")
    IN  IF ~a.session_state.mt5_connected
        THEN a
        ELSE
          LET b == Render(a, {"scan"})
          IN  IF ev.kind # "scan"
              THEN b
              ELSE IF ev.raises
                   THEN scan_gold_momentum(b)
                   ELSE LET c == [scan_gold_momentum(b) EXCEPT
                                     !.session_state.last_scan_signals = ev.signals,
                                     !.session_state.last_scan_time = Some(now(b))]
                        IN  IF c.mode = "Live (send orders later)" /\ ev.signals # << >>
                            THEN Call(c, "mt5.order_send")
                            ELSE c

scanner_block(st, ev) ==
    LET a == Enter(st, "scanner_block")
    IN  IF ~a.session_state.mt5_connected
        THEN a
        ELSE
          LET b == Render(a, {"scan"})
          IN  IF ev.kind # "scan"
              THEN b
              ELSE IF ev.raises
                   THEN scan_gold_momentum(b)
                   ELSE [scan_gold_momentum(b) EXCEPT
                            !.session_state.last_scan_signals = ev.signals,
                            !.session_state.last_scan_time = Some(now(b))]

\* main() once the owner is logged in
owner_console(st, ev) ==
    LET a == connect_mt5_block(risk_and_mode_block(st, ev), ev)
    IN  IF a.raised THEN a
        ELSE scanner_block(session_overview_block(a, ev), ev)

\* a run of the script starts with nothing drawn and nothing called
StartRun(st) ==
    [st EXCEPT !.run_calls = << >>, !.run_blocks = << >>, !.screen = {},
               !.raised = FALSE, !.rerun = FALSE]

main(st, ev) ==
    IF ~st.session_state.logged_in
    THEN LET a == show_login_screen(StartRun(st), ev)
         IN  IF a.rerun THEN owner_console(StartRun(a), NoEvent) ELSE a
    ELSE owner_console(StartRun(st), ev)

\* the console as the record the blocks work on
Console ==
    [session_state |-> session_state, mode |-> mode, mt5_lib |-> mt5_lib,
     run_calls |-> run_calls, run_blocks |-> run_blocks, screen |-> screen,
     last_connect |-> last_connect, shutdown_since |-> shutdown_since,
     raised |-> FALSE, rerun |-> FALSE]

\* the script has not run yet
ConsoleStart(available) ==
    [session_state |-> InitialSessionState, mode |-> "Paper / Monitor Only",
     mt5_lib |-> MT5Down(available), run_calls |-> << >>, run_blocks |-> << >>,
     screen |-> {}, last_connect |-> "none", shutdown_since |-> FALSE,
     raised |-> FALSE, rerun |-> FALSE]

ConsoleIs(st) ==
    /\ session_state = st.session_state
    /\ mode = st.mode
    /\ mt5_lib = st.mt5_lib
    /\ run_calls = st.run_calls
    /\ run_blocks = st.run_blocks
    /\ screen = st.screen
    /\ last_connect = st.last_connect
    /\ shutdown_since = st.shutdown_since

\* no engine run
EngineOff ==
    /\ df = << >>
    /\ r_multiple = DEFAULT_R_MULTIPLE
    /\ pc = "done"
    /\ day_groups = << >>
    /\ d = 1
    /\ s = 1
    /\ ctx = NoCtx
    /\ idx = 0
    /\ touched_zone = FALSE
    /\ prev_open = 0
    /\ prev_close = 0
    /\ eng = NoEng
    /\ all_setups = << >>
    /\ log = << >>

RiskChoices == {25, 100}

\* what engine.scan_gold_momentum() can return: no signal, or one momentum trade
ScanResults == { << >>, << [direction |-> "buy"] >> }

ConsoleBecomes(st) ==
    /\ session_state' = st.session_state
    /\ mode' = st.mode
    /\ mt5_lib' = st.mt5_lib
    /\ run_calls' = st.run_calls
    /\ run_blocks' = st.run_blocks
    /\ screen' = st.screen
    /\ last_connect' = st.last_connect
    /\ shutdown_since' = st.shutdown_since

\* the script runs from the top on the event ev
Run(ev) ==
    /\ ConsoleBecomes(main(Console, ev))
    /\ last_event' = ev
    /\ UNCHANGED <<vars, sim_vars>>

\* the first run of the script, in a process with or without the MetaTrader5 package
ConsoleInit ==
    /\ \E available \in BOOLEAN : ConsoleIs(main(ConsoleStart(available), NoEvent))
    /\ last_event = NoEvent
    /\ EngineOff
    /\ SimulatorOff

LoginSubmit ==
    /\ "login_form" \in screen
    /\ \E u, p \in Texts({" ", "j"}, MaxText) :
          Run([kind |-> "login_submit", username |-> u, password |-> p])

ChangeRisk ==
    /\ "risk" \in screen
    /\ \E v \in RiskChoices \ {session_state.risk_perc} : Run([kind |-> "risk", risk |-> v])

ChangeMode ==
    /\ "mode" \in screen
    /\ \E m \in Modes \ {mode} : Run([kind |-> "mode", mode |-> m])

EditMT5Field ==
    /\ "mt5_fields" \in screen
    /\ \E f \in MT5Fields : \E t \in FieldTexts(f) :
          /\ session_state[f] # t
          /\ Run([kind |-> "edit", field |-> f, text |-> t])

ConnectTestMT5 ==
    /\ "connect" \in screen
    /\ \E i, l, a \in BOOLEAN :
          Run([kind |-> "connect", initialize_ok |-> i, login_ok |-> l,
               account_info_ok |-> a])

ClearMT5Details ==
    /\ "clear" \in screen
    /\ Run([kind |-> "clear"])

ScanGoldNow ==
    /\ "scan" \in screen
    /\ now(Console) <= MaxScans
    /\ \E raises \in BOOLEAN, signals \in ScanResults :
          Run([kind |-> "scan", raises |-> raises, signals |-> signals])

ConsoleNext ==
    \/ LoginSubmit
    \/ ChangeRisk
    \/ ChangeMode
    \/ EditMT5Field
    \/ ConnectTestMT5
    \/ ClearMT5Details
    \/ ScanGoldNow

ConsoleSpec == ConsoleInit /\ [][ConsoleNext]_all_vars

-----------------------------------------------------------------------------
(* Outcome simulator (spec 4.7): a TradeSetup is walked forward over the     *)
(* candles after its confirmation candle, one candle per step.               *)

\* a TradeSetup as the Signal Assembler prices it, not yet resolved
SimulatedTrade(direction, entry, risk, r) ==
    [direction |-> direction, entry |-> entry,
     stop |-> IF direction = "BUY" THEN entry - risk ELSE entry + risk,
     target |-> IF direction = "BUY" THEN entry + r * risk ELSE entry - r * risk,
     outcome |-> "OPEN"]

\* the target tested before the stop
simulate_candle_target_first(tr, c) ==
    IF tr.direction = "BUY"
    THEN IF c.high >= tr.target THEN "HIT_TARGET"
         ELSE IF c.low <= tr.stop THEN "HIT_STOP" ELSE "OPEN"
    ELSE IF c.low <= tr.target THEN "HIT_TARGET"
         ELSE IF c.high >= tr.stop THEN "HIT_STOP" ELSE "OPEN"

\* a level counts as reached only when the range goes beyond it
simulate_candle_strict(tr, c) ==
    IF tr.direction = "BUY"
    THEN IF c.low < tr.stop THEN "HIT_STOP"
         ELSE IF c.high > tr.target THEN "HIT_TARGET" ELSE "OPEN"
    ELSE IF c.high > tr.stop THEN "HIT_STOP"
         ELSE IF c.low < tr.target THEN "HIT_TARGET" ELSE "OPEN"

\* one candle: "if the candle's low <= stop, close as HIT_STOP; else if
\* high >= target, close as HIT_TARGET", mirrored for a short trade
simulate_candle(tr, c) ==
    IF tr.direction = "BUY"
    THEN IF c.low <= tr.stop THEN "HIT_STOP"
         ELSE IF c.high >= tr.target THEN "HIT_TARGET" ELSE "OPEN"
    ELSE IF c.high >= tr.stop THEN "HIT_STOP"
         ELSE IF c.low <= tr.target THEN "HIT_TARGET" ELSE "OPEN"

SimLen == 3

SimEntry == 300

SimRisks == {50, 100}

\* ranges around a long trade with entry 300, stop 250 and target 450:
\* inside both levels, on the stop, on the target, beyond each, beyond both
SimRangesBuy ==
    { [low |-> 260, high |-> 440], [low |-> 250, high |-> 440],
      [low |-> 260, high |-> 450], [low |-> 240, high |-> 300],
      [low |-> 300, high |-> 460], [low |-> 200, high |-> 500] }

SimMirror(c) == [low |-> 2 * SimEntry - c.high, high |-> 2 * SimEntry - c.low]

SimRanges(direction) ==
    IF direction = "BUY" THEN SimRangesBuy ELSE {SimMirror(c) : c \in SimRangesBuy}

SimInit ==
    /\ \E direction \in {"BUY", "SELL"}, risk \in SimRisks :
          /\ trade = SimulatedTrade(direction, SimEntry, risk, DEFAULT_R_MULTIPLE)
          /\ candles \in UNION {[1..n -> SimRanges(direction)] : n \in 0..SimLen}
    /\ walk = 0
    /\ trigger = 0
    /\ EngineOff
    /\ ConsoleOff

\* the next candle reaches neither level
SimPass ==
    /\ trade.outcome = "OPEN"
    /\ walk < Len(candles)
    /\ simulate_candle(trade, candles[walk + 1]) = "OPEN"
    /\ walk' = walk + 1
    /\ UNCHANGED <<trade, candles, trigger>>
    /\ UNCHANGED <<vars, console_vars>>

\* the next candle closes the trade at its stop
SimHitStop ==
    /\ trade.outcome = "OPEN"
    /\ walk < Len(candles)
    /\ simulate_candle(trade, candles[walk + 1]) = "HIT_STOP"
    /\ trade' = [trade EXCEPT !.outcome = "HIT_STOP"]
    /\ walk' = walk + 1
    /\ trigger' = walk + 1
    /\ UNCHANGED candles
    /\ UNCHANGED <<vars, console_vars>>

\* the next candle closes the trade at its target
SimHitTarget ==
    /\ trade.outcome = "OPEN"
    /\ walk < Len(candles)
    /\ simulate_candle(trade, candles[walk + 1]) = "HIT_TARGET"
    /\ trade' = [trade EXCEPT !.outcome = "HIT_TARGET"]
    /\ walk' = walk + 1
    /\ trigger' = walk + 1
    /\ UNCHANGED candles
    /\ UNCHANGED <<vars, console_vars>>

SimNext ==
    \/ SimPass
    \/ SimHitStop
    \/ SimHitTarget

SimSpec == SimInit /\ [][SimNext]_all_vars

\* the walk is over: the trade is closed or the data has ended
SimDone == trade.outcome # "OPEN" \/ walk = Len(candles)

-----------------------------------------------------------------------------
(* Reference definitions for the properties: they read the input rows df   *)
(* directly and use none of the engine's operators.                        *)

Setups == {all_setups[i] : i \in 1..Len(all_setups)}

Logged == {log[i] : i \in 1..Len(log)}

RowsOn(day) == {r \in {df[i] : i \in 1..Len(df)} : r.time \div 1440 = day}

HourIn(r, lo, hi) == lo <= (r.time % 1440) \div 60 /\ (r.time % 1440) \div 60 < hi

WindowHours(sname) ==
    IF sname = "LONDON" THEN <<3, 5>> ELSE <<8, 10>>

\* the candles of the day inside the named session window
WindowRows(day, sname) ==
    {r \in RowsOn(day) : HourIn(r, WindowHours(sname)[1], WindowHours(sname)[2])}

\* the candles of the day strictly before the first candle of the window
RowsBefore(day, sname) ==
    LET starts == {w.time : w \in WindowRows(day, sname)}
    IN  {r \in RowsOn(day) : starts # {} /\ \A t \in starts : r.time < t}

\* the rows of df that are in S, earliest first
InTimeOrder(S) ==
    SortSeq(SelectSeq(df, LAMBDA r : r \in S), LAMBDA a, b : a.time < b.time)

BodyLow(r) == IF r.open <= r.close THEN r.open ELSE r.close

BodyHigh(r) == IF r.open >= r.close THEN r.open ELSE r.close

\* [low, high] of the row intersects [zone_low, zone_high]
Intersects(r, zone) == r.low <= zone.zone_high /\ r.high >= zone.zone_low

-----------------------------------------------------------------------------
(* Properties *)

\* C1: no two emitted setups share the same day and session_name: at most
\* one TradeSetup per (day, session window) pair.
C1_OnePerDaySession ==
    \A i, j \in 1..Len(all_setups) :
        (all_setups[i].day = all_setups[j].day /\
         all_setups[i].session_name = all_setups[j].session_name) => i = j

\* C1 witness: a finished run that emitted in both sessions of one day and
\* in the same session of two days.
C1_Witness ==
    /\ pc = "done"
    /\ \E a, b \in Setups : a.day = b.day /\ a.session_name # b.session_name
    /\ \E a, b \in Setups : a.day # b.day /\ a.session_name = b.session_name

\* C2: every emitted setup has its stop strictly on the loss side of its
\* entry (stop < entry for BUY, stop > entry for SELL), and a session whose
\* confirmation had non-positive risk has no setup.
C2_StopOnLossSide ==
    /\ \A st \in Setups :
          /\ st.direction = "BUY" => st.stop < st.entry
          /\ st.direction = "SELL" => st.stop > st.entry
    /\ \A e \in Logged :
          e.outcome = "RISK_REJECTED" =>
              ~\E st \in Setups : st.day = e.day /\ st.session_name = e.session_name

\* C2 witness: a finished run with an emitted setup and a confirmation that
\* was rejected for non-positive risk.
C2_Witness ==
    /\ pc = "done"
    /\ Setups # {}
    /\ \E e \in Logged : e.outcome = "RISK_REJECTED"

\* C3: target = entry + R*(entry - stop) for BUY and entry - R*(stop - entry)
\* for SELL, so |entry - target| = R*|entry - stop| and the target lies on
\* the other side of the entry from the stop.
C3_TargetIsRMultiple ==
    \A st \in Setups :
        /\ st.direction = "BUY" => st.target = st.entry + r_multiple * (st.entry - st.stop)
        /\ st.direction = "SELL" => st.target = st.entry - r_multiple * (st.stop - st.entry)
        /\ Abs(st.entry - st.target) = r_multiple * Abs(st.entry - st.stop)
        /\ (st.stop < st.entry) = (st.target > st.entry)

\* C3 witness: a finished run with a BUY setup and a SELL setup.
C3_Witness ==
    /\ pc = "done"
    /\ \E a, b \in Setups : a.direction = "BUY" /\ b.direction = "SELL"

\* close of the last row minus open of the first row, 0 for no rows
MoveOver(rows) ==
    IF rows = << >> THEN 0 ELSE rows[Len(rows)].close - rows[1].open

\* the bias a move gives
BiasOf(move) ==
    IF Abs(move) < 150 THEN "NONE" ELSE IF move > 0 THEN "BUY" ELSE "SELL"

\* the day's move over the candles before 03:00, the start of the earliest
\* configured session window
DayMove(day) == MoveOver(InTimeOrder({r \in RowsOn(day) : HourIn(r, 0, 3)}))

\* the move over the candles before the first candle of the named window
MoveBefore(day, sname) == MoveOver(InTimeOrder(RowsBefore(day, sname)))

\* C4 as claimed: a day whose move before the earliest session window is
\* smaller than 150 points has no setup in any session window.
C4_Original ==
    \A st \in Setups : Abs(DayMove(st.day)) >= 150

\* C4 as amended: a session window whose own pre-window move (over the
\* day's candles before the window's first candle) is smaller than 150
\* points ends NO_BIAS and has no setup.
C4_NoBiasNoSetup ==
    /\ \A st \in Setups : Abs(MoveBefore(st.day, st.session_name)) >= 150
    /\ \A e \in Logged :
          (RowsBefore(e.day, e.session_name) # {} /\
           Abs(MoveBefore(e.day, e.session_name)) < 150) => e.outcome = "NO_BIAS"

\* C4 witness: a finished run where London ended NO_BIAS on a 100-point
\* move and New York of the same day emitted a setup.
C4_Witness ==
    /\ pc = "done"
    /\ \E e \in Logged :
          /\ e.session_name = "LONDON"
          /\ e.outcome = "NO_BIAS"
          /\ Abs(MoveBefore(e.day, "LONDON")) = 100
          /\ \E st \in Setups : st.day = e.day /\ st.session_name = "NEW_YORK"

\* the log entries of sessions that had window and pre-window candles
Classified == {e \in Logged : e.outcome \notin {"NO_WINDOW", "NO_PRE_WINDOW"}}

\* C5 as claimed: every session window of a day uses the one bias
\* classified from the day's candles before the earliest session window.
C5_Original ==
    \A e \in Classified : e.dominant_dir = BiasOf(DayMove(e.day))

\* C5 as amended: each session window uses the bias classified from the
\* day's candles strictly before that window's first candle, and its zone
\* is bounded by a high and a low of such candles.
C5_BiasFromOwnPreWindow ==
    \A e \in Classified :
        /\ e.dominant_dir = BiasOf(MoveBefore(e.day, e.session_name))
        /\ e.fvg_zone.found =>
              \E a, b \in RowsBefore(e.day, e.session_name) :
                  e.fvg_zone.zone_low = a.high /\ e.fvg_zone.zone_high = b.low

\* C5 witness: a finished run where London and New York of one day were
\* classified with different biases.
C5_Witness ==
    /\ pc = "done"
    /\ \E a, b \in Classified :
          /\ a.day = b.day
          /\ a.session_name = "LONDON" /\ b.session_name = "NEW_YORK"
          /\ a.dominant_dir # b.dominant_dir
          /\ b.dominant_dir # "NONE"

\* the row of the day stamped t, and the row immediately before it
RowAt(day, t) == CHOOSE r \in RowsOn(day) : r.time = t

RowBefore(day, t) ==
    CHOOSE r \in RowsOn(day) :
        r.time < t /\ \A q \in RowsOn(day) : q.time < t => q.time <= r.time

\* C6 as claimed: the body of every emitted confirmation candle contains
\* the body of the immediately preceding candle, whatever its colour.
C6_BodyContainsPrevious ==
    \A st \in Setups :
        LET cur == RowAt(st.day, st.trade_time)
            prev == RowBefore(st.day, st.trade_time)
        IN  BodyLow(cur) <= BodyLow(prev) /\ BodyHigh(cur) >= BodyHigh(prev)

\* the log entry of the iteration that emitted the setup
EntryOf(st) ==
    CHOOSE e \in Logged : e.day = st.day /\ e.session_name = st.session_name

\* C7 as claimed: the scan is IN_ZONE from the first window candle, counted
\* from the very first one, that intersects the selected zone; so a scan
\* that ran out of window candles is IN_ZONE iff some window candle
\* intersects the zone.
C7_InZoneFromFirstCandle ==
    \A e \in Logged :
        e.outcome = "WINDOW_EXHAUSTED" =>
            (e.touched_zone <=>
                \E r \in WindowRows(e.day, e.session_name) : Intersects(r, e.fvg_zone))

\* C8: for every emitted setup some candle of its session window at or
\* before the confirmation candle intersects the selected zone; a session
\* none of whose window candles intersects the zone emits nothing.
C8_RetraceBeforeSignal ==
    /\ \A st \in Setups :
          \E r \in WindowRows(st.day, st.session_name) :
              r.time <= st.trade_time /\ Intersects(r, EntryOf(st).fvg_zone)
    /\ \A e \in Logged :
          (~\E r \in WindowRows(e.day, e.session_name) : Intersects(r, e.fvg_zone))
              => e.outcome # "SIGNAL_EMITTED"

\* C8 witness: a finished run with a setup whose window starts with a
\* candle outside the zone, then a candle inside it, then the confirmation.
C8_Witness ==
    /\ pc = "done"
    /\ \E st \in Setups :
          \E r, q \in WindowRows(st.day, st.session_name) :
              /\ r.time < q.time /\ q.time < st.trade_time
              /\ ~Intersects(r, EntryOf(st).fvg_zone)
              /\ Intersects(q, EntryOf(st).fvg_zone)

\* the imbalance test of the specification at creating-candle index i
\* (0-based) of the slice: BULLISH for BUY, BEARISH for SELL
GapAt(pre, dir, i) ==
    IF dir = "BUY" THEN pre[i + 2].low > pre[i].high
    ELSE pre[i + 2].high < pre[i].low

GapBounds(pre, dir, i) ==
    IF dir = "BUY"
    THEN [found |-> TRUE, zone_low |-> pre[i].high, zone_high |-> pre[i + 2].low]
    ELSE [found |-> TRUE, zone_low |-> pre[i + 2].high, zone_high |-> pre[i].low]

\* C9 as claimed: the selected zone is the matching imbalance with the
\* greatest index among all indices 1 <= i <= length-2 of the pre-window
\* slice, and there is no zone only when no such index exists.
C9_MostRecentOfAllIndices ==
    \A e \in Classified :
        e.dominant_dir # "NONE" =>
            LET pre == InTimeOrder(RowsBefore(e.day, e.session_name))
                hits == {i \in 1..(Len(pre) - 2) : GapAt(pre, e.dominant_dir, i)}
            IN  IF hits = {} THEN ~e.fvg_zone.found
                ELSE e.fvg_zone =
                        GapBounds(pre, e.dominant_dir, CHOOSE i \in hits : \A j \in hits : j <= i)

\* swing_lookback L of the Swing Detector (specification 4.2)
SwingLookback == 1

\* Swing Detector: index i (0-based) of rows is a swing LOW (dir BUY) or a
\* swing HIGH (dir SELL): a strict extremum over [i - L, i + L]
IsOpposingSwing(rows, dir, i) ==
    /\ SwingLookback <= i
    /\ i < Len(rows) - SwingLookback
    /\ \A j \in (i - SwingLookback)..(i + SwingLookback) :
          j # i => IF dir = "BUY" THEN rows[i + 1].low < rows[j + 1].low
                   ELSE rows[i + 1].high > rows[j + 1].high

\* the stop of the Signal Assembler (specification 4.6) for a confirmation
\* at index ci (0-based) of rows
ClaimedStop(rows, dir, ci) ==
    LET swings == {i \in 0..(ci - 1) : IsOpposingSwing(rows, dir, i)}
        latest == CHOOSE i \in swings : \A j \in swings : j <= i
        second == CHOOSE i \in swings \ {latest} : \A j \in swings \ {latest} : j <= i
        last3 == {rows[k + 1] : k \in {k \in 0..(ci - 1) : k >= ci - 3}}
    IN  IF Cardinality(swings) >= 2
        THEN IF dir = "BUY" THEN rows[second + 1].low ELSE rows[second + 1].high
        ELSE IF dir = "BUY"
             THEN CHOOSE x \in {r.low : r \in last3} : \A r \in last3 : x <= r.low
             ELSE CHOOSE x \in {r.high : r \in last3} : \A r \in last3 : x >= r.high

\* C10 as claimed: the stop is the second-most-recent opposing swing point
\* before the confirmation candle, or, with fewer than two such swings, the
\* minimum low / maximum high of the last 3 candles before the confirmation
\* candle, the confirmation candle excluded.
C10_Original ==
    \A st \in Setups :
        LET rows == InTimeOrder(RowsOn(st.day))
            ci == Cardinality({r \in RowsOn(st.day) : r.time < st.trade_time})
        IN  st.stop = ClaimedStop(rows, st.direction, ci)

\* the window candles up to and including the confirmation candle, at most
\* the last four of them
LastFourOf(st) ==
    LET upto == {r \in WindowRows(st.day, st.session_name) : r.time <= st.trade_time}
    IN  {r \in upto : Cardinality({q \in upto : q.time > r.time}) <= 3}

\* C10 as amended: the stop is the minimum low (BUY) / maximum high (SELL)
\* of the last four session-window candles up to and including the
\* confirmation candle (fewer when the window has fewer by then).
C10_StopOverLastFour ==
    \A st \in Setups :
        /\ st.direction = "BUY" =>
              /\ \E r \in LastFourOf(st) : st.stop = r.low
              /\ \A r \in LastFourOf(st) : st.stop <= r.low
        /\ st.direction = "SELL" =>
              /\ \E r \in LastFourOf(st) : st.stop = r.high
              /\ \A r \in LastFourOf(st) : st.stop >= r.high

\* C10 witness: a finished run with a BUY setup confirmed on the fifth
\* window candle, whose stop is the confirmation candle's own low, lower
\* than the lows of the three candles before it and higher than the low of
\* the first window candle.
C10_Witness ==
    /\ pc = "done"
    /\ \E st \in Setups :
          /\ st.direction = "BUY"
          /\ Cardinality({r \in WindowRows(st.day, st.session_name) :
                             r.time < st.trade_time}) = 4
          /\ st.stop = RowAt(st.day, st.trade_time).low
          /\ \A r \in LastFourOf(st) : r.time < st.trade_time => r.low > st.stop
          /\ \E r \in WindowRows(st.day, st.session_name) : r.low < st.stop

\* the three conditions of an engulfing confirmation: the body of cur
\* contains the body of prev, cur closes in the direction dir, and the body
\* of cur is at least 0.7 times the body of prev
IsEngulfing(cur, prev, dir) ==
    /\ BodyLow(cur) <= BodyLow(prev)
    /\ BodyHigh(cur) >= BodyHigh(prev)
    /\ IF dir = "BUY" THEN cur.close > cur.open ELSE cur.close < cur.open
    /\ 10 * (BodyHigh(cur) - BodyLow(cur)) >= 7 * (BodyHigh(prev) - BodyLow(prev))

\* the window candles at or after the retracement into the zone that
\* satisfy the three conditions against the candle immediately before them
ValidConfirmations(day, sname, dir, zone) ==
    {r \in WindowRows(day, sname) :
        /\ \E q \in WindowRows(day, sname) : q.time <= r.time /\ Intersects(q, zone)
        /\ IsEngulfing(r, RowBefore(day, r.time), dir)}

\* C11 as claimed: in every state, the confirmation candle of each emitted
\* setup is the earliest candle of its session window that is at or after
\* the retracement and satisfies the three engulfing conditions against its
\* immediately preceding candle; holding in every later state too, the
\* setup is never changed or replaced by later candles.
C11_FirstValidWins ==
    \A st \in Setups :
        LET valid == ValidConfirmations(st.day, st.session_name, st.direction,
                                        EntryOf(st).fvg_zone)
        IN  /\ RowAt(st.day, st.trade_time) \in valid
            /\ \A r \in valid : st.trade_time <= r.time

\* C12: the confirmation candle of every emitted setup is a candle of the
\* input that lies on the setup's day and whose hour h satisfies
\* start_hour <= h < end_hour of the session named in the setup.
C12_ConfirmationInsideWindow ==
    \A st \in Setups :
        /\ \E r \in RowsOn(st.day) : r.time = st.trade_time
        /\ st.trade_time \div 1440 = st.day
        /\ st.session_name \in {"LONDON", "NEW_YORK"}
        /\ WindowHours(st.session_name)[1] <= (st.trade_time % 1440) \div 60
        /\ (st.trade_time % 1440) \div 60 < WindowHours(st.session_name)[2]

\* C12 witness: a finished run whose setup was confirmed on the 04:30
\* candle, the last one of the London window, on a day that also has a
\* bullish engulfing candle at 05:30, after the window has ended.
C12_Witness ==
    /\ pc = "done"
    /\ \E st \in Setups :
          /\ st.trade_time = st.day * 1440 + 4 * 60 + 30
          /\ \E r, q \in RowsOn(st.day) :
                /\ q.time = st.day * 1440 + 5 * 60
                /\ r.time = st.day * 1440 + 5 * 60 + 30
                /\ q.close < q.open /\ r.close > r.open

\* the last 60 rows of the pre-window slice (all of them when fewer)
LastSixty(pre) ==
    IF Len(pre) <= 60 THEN pre ELSE SubSeq(pre, Len(pre) - 59, Len(pre))

\* 1-based position in rows of the extremum opposing the bias: the lowest
\* low for BUY, the highest high for SELL, the earliest one on a tie
OpposingExtremum(rows, dir) ==
    CHOOSE k \in 1..Len(rows) :
        /\ \A j \in 1..Len(rows) :
              IF dir = "BUY" THEN rows[k].low <= rows[j].low
              ELSE rows[k].high >= rows[j].high
        /\ \A j \in 1..(k - 1) :
              IF dir = "BUY" THEN rows[j].low > rows[k].low
              ELSE rows[j].high < rows[k].high

\* the extremum sits within the final 15 positions of rows
ExtremumIsRecent(rows, dir) == OpposingExtremum(rows, dir) > Len(rows) - 15

\* the move from the extremum to the last close of rows
ImpulseFromExtremum(rows, dir) ==
    IF dir = "BUY" THEN rows[Len(rows)].close - rows[OpposingExtremum(rows, dir)].low
    ELSE rows[OpposingExtremum(rows, dir)].high - rows[Len(rows)].close

\* the pre-window slice of a logged session, in time order
PreOf(e) == InTimeOrder(RowsBefore(e.day, e.session_name))

\* the log entries of sessions that were given a bias
Biased == {e \in Classified : e.dominant_dir # "NONE"}

\* C13 as claimed: the setup kind is MANIPULATION_BOS iff, within the last
\* 60 candles of the pre-window slice, the extremum opposing the bias sits
\* within the final 15 positions and the move from it to the last close
\* exceeds 120; in every other case with a bias it is CLEAN_DISTRIBUTION.
C13_Original ==
    \A e \in Biased :
        e.setup_type =
            IF /\ ExtremumIsRecent(LastSixty(PreOf(e)), e.dominant_dir)
               /\ ImpulseFromExtremum(LastSixty(PreOf(e)), e.dominant_dir) > 120
            THEN "SETUP_2_MANIPULATION_BOS" ELSE "SETUP_1_CLEAN_DISTRIBUTION"

\* C13 as amended: the setup kind is MANIPULATION_BOS iff the pre-window
\* slice has at least 10 candles and, within its last 60 candles, the
\* earliest occurrence of the extremum opposing the bias sits within the
\* final 15 positions and the move from it to the last close is at least
\* 120; in every other case with a bias it is CLEAN_DISTRIBUTION.  An
\* emitted setup carries the kind of its session.
C13_ManipulationIff ==
    /\ \A e \in Biased :
          e.setup_type =
              IF /\ Len(PreOf(e)) >= 10
                 /\ ExtremumIsRecent(LastSixty(PreOf(e)), e.dominant_dir)
                 /\ ImpulseFromExtremum(LastSixty(PreOf(e)), e.dominant_dir) >= 120
              THEN "SETUP_2_MANIPULATION_BOS" ELSE "SETUP_1_CLEAN_DISTRIBUTION"
    /\ \A st \in Setups : st.setup_type = EntryOf(st).setup_type

\* C13 witness: a finished run with a MANIPULATION_BOS setup whose
\* pre-window slice has more than 60 candles, with the extremum on the
\* first of the final 15 positions and exactly 120 points from the last
\* close.
C13_Witness ==
    /\ pc = "done"
    /\ \E st \in Setups :
          /\ st.setup_type = "SETUP_2_MANIPULATION_BOS"
          /\ Len(PreOf(EntryOf(st))) > 60
          /\ OpposingExtremum(LastSixty(PreOf(EntryOf(st))), st.direction) = 60 - 14
          /\ ImpulseFromExtremum(LastSixty(PreOf(EntryOf(st))), st.direction) = 120

\* C14 as claimed: a session whose pre-window slice has fewer than 10
\* candles is rejected as NO_BIAS, and no setup is emitted from such a
\* slice, however large its dominant move.
C14_Original ==
    /\ \A st \in Setups : Len(PreOf(EntryOf(st))) >= 10
    /\ \A e \in Classified : Len(PreOf(e)) < 10 => e.outcome = "NO_BIAS"

\* C14 as amended: a pre-window slice with fewer than 10 candles is not
\* rejected for its length.  It is NO_BIAS exactly when its dominant move
\* is smaller than 150 points; otherwise its kind is CLEAN_DISTRIBUTION,
\* never MANIPULATION_BOS, whatever its extremum and impulse, and a setup
\* of that kind is emitted from it when the window confirms.
C14_ShortSliceIsClean ==
    /\ \A e \in Classified :
          Len(PreOf(e)) < 10 =>
              /\ (e.outcome = "NO_BIAS") <=> (Abs(MoveOver(PreOf(e))) < 150)
              /\ e.outcome # "NO_BIAS" => e.setup_type = "SETUP_1_CLEAN_DISTRIBUTION"
    /\ \A st \in Setups :
          Len(PreOf(EntryOf(st))) < 10 => st.setup_type = "SETUP_1_CLEAN_DISTRIBUTION"

\* C14 witness: a finished run that emitted a CLEAN_DISTRIBUTION setup from
\* a pre-window slice of 9 candles whose opposing extremum is within the
\* final 15 positions and at least 120 points from the last close.
C14_Witness ==
    /\ pc = "done"
    /\ \E st \in Setups :
          /\ Len(PreOf(EntryOf(st))) = 9
          /\ st.setup_type = "SETUP_1_CLEAN_DISTRIBUTION"
          /\ ExtremumIsRecent(PreOf(EntryOf(st)), st.direction)
          /\ ImpulseFromExtremum(PreOf(EntryOf(st)), st.direction) >= 120

\* C15: the direction of every emitted setup is BUY iff the dominant move
\* of its pre-window slice (last close minus first open) is positive and
\* SELL iff it is negative, whatever the setup kind; the direction of a
\* session given a bias, and of its setup, is that of the dominant move
\* for CLEAN_DISTRIBUTION and MANIPULATION_BOS alike.
C15_DirectionFollowsMove ==
    /\ \A st \in Setups :
          /\ st.direction \in {"BUY", "SELL"}
          /\ (st.direction = "BUY") <=> (MoveOver(PreOf(EntryOf(st))) > 0)
          /\ (st.direction = "SELL") <=> (MoveOver(PreOf(EntryOf(st))) < 0)
          /\ st.dominant_move_direction = st.direction
          /\ st.dominant_move_points = Abs(MoveOver(PreOf(EntryOf(st))))
    /\ \A e \in Biased :
          /\ (e.dominant_dir = "BUY") <=> (MoveOver(PreOf(e)) > 0)
          /\ (e.dominant_dir = "SELL") <=> (MoveOver(PreOf(e)) < 0)

\* C15 witness: a finished run with a CLEAN_DISTRIBUTION setup and a
\* MANIPULATION_BOS setup on the same day, both SELL, the second one with
\* its opposing extremum (a high) 120 points or more above the last close.
C15_Witness ==
    /\ pc = "done"
    /\ \E a, b \in Setups :
          /\ a.day = b.day
          /\ a.setup_type = "SETUP_1_CLEAN_DISTRIBUTION"
          /\ b.setup_type = "SETUP_2_MANIPULATION_BOS"
          /\ a.direction = "SELL" /\ b.direction = "SELL"
          /\ ImpulseFromExtremum(LastSixty(PreOf(EntryOf(b))), "SELL") >= 120

\* C16: the entry of every emitted setup equals the close of its
\* confirmation candle, the window candle whose timestamp is trade_time.
C16_EntryIsConfirmationClose ==
    \A st \in Setups :
        /\ RowAt(st.day, st.trade_time) \in WindowRows(st.day, st.session_name)
        /\ st.entry = RowAt(st.day, st.trade_time).close

\* C16 witness: a finished run with a SELL setup whose confirmation candle
\* closes away from its open and from the close of the candle before it.
C16_Witness ==
    /\ pc = "done"
    /\ \E st \in Setups :
          /\ st.direction = "SELL"
          /\ st.entry = RowAt(st.day, st.trade_time).close
          /\ st.entry # RowAt(st.day, st.trade_time).open
          /\ st.entry # RowBefore(st.day, st.trade_time).close

\* C17: every zone returned by zone detection, for BUY (bullish) and SELL
\* (bearish) alike and for any candle series, has its low bound strictly
\* below its high bound.
C17_ZoneLowBelowHigh ==
    /\ ctx.fvg_zone.found => ctx.fvg_zone.zone_low < ctx.fvg_zone.zone_high
    /\ \A e \in Logged : e.fvg_zone.found => e.fvg_zone.zone_low < e.fvg_zone.zone_high

\* C17 witness: a finished run in which a bearish zone was found in a
\* pre-window slice that contains a candle with its high below its low.
C17_Witness ==
    /\ pc = "done"
    /\ \E e \in Logged :
          /\ e.fvg_zone.found
          /\ e.dominant_dir = "SELL"
          /\ e.fvg_zone.zone_low < e.fvg_zone.zone_high
          /\ \E r \in RowsBefore(e.day, e.session_name) : r.high < r.low

\* the rows of df stamped on the given day, in the order of df
SeriesOf(day) == SelectSeq(df, LAMBDA r : r.time \div 1440 = day)

\* the emitted setups of the given day, in the order of emission
SetupsOn(day) == SelectSeq(all_setups, LAMBDA st : st.day = day)

\* C18: the setups emitted for a day D are a function of day D's candles
\* only: whatever the candles of the other days are and in whatever order
\* the days are given, a finished run has emitted for D exactly the setups
\* that the series made of D's candles alone yields.
C18_DaysIndependent ==
    pc = "done" =>
        \A day \in {df[i].time \div 1440 : i \in 1..Len(df)} :
            SetupsOn(day) = find_intraday_setups(SeriesOf(day), r_multiple)

\* C18 witness: a finished run over two days given latest day first, with
\* a BUY setup on one day, a SELL setup on the other day and a session of
\* the later day rejected for non-positive risk.
C18_Witness ==
    /\ pc = "done"
    /\ df[1].time > df[Len(df)].time
    /\ \E a, b \in Setups : a.day < b.day /\ a.direction = "SELL" /\ b.direction = "BUY"
    /\ \E e \in Logged : e.day = 1 /\ e.outcome = "RISK_REJECTED"

\* the timestamps of df are not strictly increasing (out of order or
\* duplicate), or a candle has high < max(open, close) or
\* low > min(open, close)
SeriesIsInvalid ==
    \/ \E i \in 1..(Len(df) - 1) : df[i + 1].time <= df[i].time
    \/ \E i \in 1..Len(df) : df[i].high < BodyHigh(df[i]) \/ df[i].low > BodyLow(df[i])

\* C19 as claimed: a series with non-monotonic or duplicate timestamps, or
\* with a candle that has high < max(open, close) or low > min(open, close),
\* aborts the run: it is never reordered, no session of it is scanned and
\* no setup is emitted.
C19_Original ==
    SeriesIsInvalid => day_groups = << >> /\ log = << >> /\ all_setups = << >>

\* C19 as amended: no series is rejected for its timestamps or its OHLC
\* values.  The candles are put in timestamp order, each day's group holds
\* all of the day's candles in that order (duplicates included), and a
\* finished run has emitted exactly the setups that the same candles given
\* in timestamp order yield.
C19_UncheckedSeriesIsScanned ==
    /\ \A k \in 1..Len(day_groups) :
          day_groups[k].day_df = InTimeOrder(RowsOn(day_groups[k].day))
    /\ pc # "load" =>
          {day_groups[k].day : k \in 1..Len(day_groups)}
              = {df[i].time \div 1440 : i \in 1..Len(df)}
    /\ pc = "done" =>
          all_setups =
              find_intraday_setups(InTimeOrder({df[i] : i \in 1..Len(df)}), r_multiple)

\* C19 witness: a finished run over a series given latest candle first,
\* with a pre-window candle given twice, that emitted a setup whose
\* confirmation candle has its low above its open.
C19_Witness ==
    /\ pc = "done"
    /\ df[1].time > df[Len(df)].time
    /\ \E i \in 1..(Len(df) - 1) : df[i + 1] = df[i]
    /\ \E st \in Setups :
          RowAt(st.day, st.trade_time).low > RowAt(st.day, st.trade_time).open

\* the configured windows that contain the hour h
WindowsAt(h) ==
    {k \in 1..Len(SESSION_WINDOWS) :
        SESSION_WINDOWS[k].start_hour <= h /\ h < SESSION_WINDOWS[k].end_hour}

\* C20: every hour of the day lies in at most one configured window
\* (LONDON 3-5 and NEW_YORK 8-10 do not overlap); the candles a session
\* scans are exactly the day's candles with start_hour <= hour < end_hour,
\* start inclusive and end exclusive; and no candle is a confirmation
\* candidate, or the confirmation candle, of two sessions.
C20_OneWindowPerCandle ==
    /\ \A h \in 0..23 : Cardinality(WindowsAt(h)) <= 1
    /\ \A i \in 1..Len(df) :
          /\ Cardinality(WindowsAt((df[i].time % 1440) \div 60)) <= 1
          /\ Cardinality({sn \in {"LONDON", "NEW_YORK"} :
                             df[i] \in WindowRows(df[i].time \div 1440, sn)}) <= 1
    /\ pc \in {"scan", "assemble"} =>
          {ctx.window_df[i] : i \in 1..Len(ctx.window_df)}
              = WindowRows(day_groups[d].day, ctx.session_name)
    /\ \A a, b \in Setups : a.trade_time = b.trade_time => a = b

\* C20 witness: the London scan of a day that has candles at 02:30, 03:00,
\* 04:30 and 05:00: the scanned window starts with the 03:00 candle and
\* ends with the 04:30 candle.
C20_Witness ==
    /\ pc = "scan"
    /\ ctx.session_name = "LONDON"
    /\ \E r, q \in RowsOn(day_groups[d].day) :
          /\ r.time % 1440 = 2 * 60 + 30
          /\ q.time % 1440 = 5 * 60
    /\ ctx.window_df[1].time % 1440 = 3 * 60
    /\ ctx.window_df[Len(ctx.window_df)].time % 1440 = 4 * 60 + 30

-----------------------------------------------------------------------------
\* Stage of the scan the engine is in: 3 AWAITING_RETRACE, 4 IN_ZONE,
\* 5 SIGNAL_EMITTED (_engulfing_in_window has returned a confirmation),
\* 0 between two (day, session) iterations.
Stage ==
    IF pc = "scan" THEN IF touched_zone THEN 4 ELSE 3
    ELSE IF pc = "assemble" THEN 5
    ELSE 0

\* the terminal state of section 4.5 an iteration's outcome stands for
TerminalOf(outcome) ==
    CASE outcome \in {"NO_BIAS", "NO_PRE_WINDOW"} -> "NO_BIAS"
      [] outcome \in {"NO_ZONE", "WINDOW_EXHAUSTED"} -> "WINDOW_EXHAUSTED"
      [] outcome \in {"SIGNAL_EMITTED", "RISK_REJECTED"} -> "SIGNAL_EMITTED"
      [] OTHER -> "NONE"

EndingsOf(day, sname) ==
    {i \in 1..Len(log) : log[i].day = day /\ log[i].session_name = sname}

\* one step of a scan: the stage never decreases, the scan is left only by
\* logging a terminal state that fits the stage it was in
ScanStepForward ==
    /\ (Stage # 0 /\ Stage' # 0) => Stage' >= Stage
    /\ (Stage # 0 /\ Stage' = 0) =>
          /\ Len(log') = Len(log) + 1
          /\ LET e == log'[Len(log')]
             IN  /\ e.day = day_groups[d].day
                 /\ e.session_name = ctx.session_name
                 /\ TerminalOf(e.outcome) =
                        IF Stage = 5 THEN "SIGNAL_EMITTED" ELSE "WINDOW_EXHAUSTED"
    /\ (Stage = 0 /\ Stage' # 0) => Stage' = 3
    /\ (pc = "scan" /\ pc' = "scan") => idx' = idx + 1
    /\ Stage' = 5 => touched_zone'

\* every (day, session) whose window has candles has ended once, in one of
\* the three terminal states, when the run is over
EveryScanEnded ==
    /\ \A day \in {r.time \div 1440 : r \in {df[i] : i \in 1..Len(df)}} :
         \A k \in 1..Len(SESSION_WINDOWS) :
            LET sname == SESSION_WINDOWS[k].name
            IN  /\ Cardinality(EndingsOf(day, sname)) <= 1
                /\ (pc = "done" /\ WindowRows(day, sname) # {}) =>
                      \E i \in EndingsOf(day, sname) :
                         TerminalOf(log[i].outcome) \in
                            {"NO_BIAS", "SIGNAL_EMITTED", "WINDOW_EXHAUSTED"}
    /\ pc = "scan" => idx < Len(ctx.window_df)

\* C24: within one (day, session) scan the state only moves forward
\* (AWAITING_RETRACE -> IN_ZONE -> SIGNAL_EMITTED | WINDOW_EXHAUSTED), IN_ZONE
\* is never left once touched_zone is set, and every scan of a window ends in
\* exactly one of NO_BIAS, SIGNAL_EMITTED, WINDOW_EXHAUSTED.
C24_ScanOnlyMovesForward == []EveryScanEnded /\ [][ScanStepForward]_vars

\* a scan still IN_ZONE after a candle that no longer intersects the zone
C24_Witness ==
    /\ pc = "scan"
    /\ touched_zone
    /\ idx >= 3
    /\ ~Intersects(ctx.window_df[idx], ctx.fvg_zone)
    /\ ~_traded_into_zone(ctx.window_df[idx], ctx.dominant_dir, ctx.fvg_zone)

-----------------------------------------------------------------------------
\* the OHLC invariants of a candle (spec 3)
OHLCValid(r) ==
    /\ r.low <= r.open /\ r.low <= r.close
    /\ r.high >= r.open /\ r.high >= r.close

WindowIsValid(day, sname) == \A r \in WindowRows(day, sname) : OHLCValid(r)

\* C25: when the candles of the window satisfy the OHLC invariants, every
\* confirmation returned by _engulfing_in_window has strictly positive risk
\* (stop < entry for BUY, stop > entry for SELL); the rejection
\* "risk_points <= 0" is not taken and the confirmation yields a TradeSetup.
C25_ValidCandlesPositiveRisk ==
    /\ (pc = "assemble" /\ WindowIsValid(day_groups[d].day, ctx.session_name)) =>
          /\ eng.found
          /\ ctx.dominant_dir = "BUY" => eng.stop < eng.entry
          /\ ctx.dominant_dir = "SELL" => eng.stop > eng.entry
    /\ \A e \in Logged :
          WindowIsValid(e.day, e.session_name) =>
             /\ e.outcome # "RISK_REJECTED"
             /\ e.outcome = "SIGNAL_EMITTED" =>
                   \E st \in Setups : st.day = e.day /\ st.session_name = e.session_name

\* a confirmation on valid candles, in each direction, that became a TradeSetup
C25_Witness ==
    /\ pc = "done"
    /\ \A dir \in {"BUY", "SELL"} :
         \E e \in Logged :
            /\ e.outcome = "SIGNAL_EMITTED"
            /\ e.dominant_dir = dir
            /\ WindowIsValid(e.day, e.session_name)
            /\ \E st \in Setups : st.day = e.day /\ st.session_name = e.session_name

-----------------------------------------------------------------------------
RowsOutOfOrder == \E i \in 1..(Len(df) - 1) : df[i].time > df[i + 1].time

\* C26: whatever the order of the input rows, the returned list is in
\* chronological order: by day ascending and, within a day, LONDON before
\* NEW_YORK, so trade_time is strictly increasing along the list.
C26_SetupsInTimeOrder ==
    \A i, j \in 1..Len(all_setups) :
       i < j =>
          /\ all_setups[i].trade_time < all_setups[j].trade_time
          /\ all_setups[i].day <= all_setups[j].day
          /\ all_setups[i].day = all_setups[j].day =>
                /\ all_setups[i].session_name = "LONDON"
                /\ all_setups[j].session_name = "NEW_YORK"

\* rows given out of time order, setups on two days and in both sessions of a day
C26_Witness ==
    /\ pc = "done"
    /\ RowsOutOfOrder
    /\ \E i, j \in 1..Len(all_setups) : all_setups[i].day < all_setups[j].day
    /\ \E i, j \in 1..Len(all_setups) :
          /\ all_setups[i].day = all_setups[j].day
          /\ all_setups[i].session_name # all_setups[j].session_name

-----------------------------------------------------------------------------
(* Properties of the owner console *)

Called(name) == \E i \in 1..Len(run_calls) : run_calls[i] = name

\* the MT5 functions that place or prepare an order
OrderCalls == {"mt5.order_send", "mt5.order_check"}

\* the run started by ev ends in the same state, the selectbox aside,
\* whichever Execution Mode was selected before it
ModeBlind(ev) ==
    LET paper == main([Console EXCEPT !.mode = "Paper / Monitor Only"], ev)
        live == main([Console EXCEPT !.mode = "Live (send orders later)"], ev)
    IN  [paper EXCEPT !.mode = ""] = [live EXCEPT !.mode = ""]

ModeInfluencesNothing ==
    /\ ModeBlind(NoEvent)
    /\ \A v \in RiskChoices : ModeBlind([kind |-> "risk", risk |-> v])
    /\ \A f \in MT5Fields : \A t \in FieldTexts(f) :
          ModeBlind([kind |-> "edit", field |-> f, text |-> t])
    /\ \A i, l, a \in BOOLEAN :
          ModeBlind([kind |-> "connect", initialize_ok |-> i, login_ok |-> l,
                     account_info_ok |-> a])
    /\ ModeBlind([kind |-> "clear"])
    /\ \A raises \in BOOLEAN, signals \in ScanResults :
          ModeBlind([kind |-> "scan", raises |-> raises, signals |-> signals])

\* a scan changes nothing but the suggestions on display and their time
ScanOnlyDisplays ==
    \A raises \in BOOLEAN, signals \in ScanResults :
       LET scanned == main(Console, [kind |-> "scan", raises |-> raises,
                                     signals |-> signals])
           idle == main(Console, NoEvent)
       IN  /\ scanned.mt5_lib = idle.mt5_lib
           /\ \A i \in 1..Len(scanned.run_calls) : scanned.run_calls[i] \notin OrderCalls
           /\ [scanned.session_state EXCEPT !.last_scan_signals = << >>,
                                            !.last_scan_time = None]
              = [idle.session_state EXCEPT !.last_scan_signals = << >>,
                                           !.last_scan_time = None]

\* C21: in every reachable state of the console and for either Execution
\* Mode, no order is sent to MT5: the mode influences no action and a scan
\* only produces the paper suggestions on display.
C21_NoOrderInEitherMode ==
    /\ \A name \in OrderCalls : ~Called(name)
    /\ mode \in Modes
    /\ ModeInfluencesNothing
    /\ ScanOnlyDisplays

\* a scan in Live mode that returned a suggestion, now on display
C21_Witness ==
    /\ mode = "Live (send orders later)"
    /\ last_event.kind = "scan"
    /\ ~last_event.raises
    /\ last_event.signals # << >>
    /\ Called("engine.scan_gold_momentum")
    /\ session_state.last_scan_signals = last_event.signals


\* C27: engine.scan_gold_momentum is invoked, and the Scan button offered,
\* only when logged_in and mt5_connected are both true; while logged_in is
\* false no block but the login screen runs; a login attempt with an empty
\* username or password leaves logged_in false.
C27_ScanNeedsLoginAndLink ==
    /\ (Called("engine.scan_gold_momentum") \/ "scan" \in screen) =>
          session_state.logged_in /\ session_state.mt5_connected
    /\ ~session_state.logged_in =>
          \A i \in 1..Len(run_blocks) : run_blocks[i] = "show_login_screen"
    /\ (/\ last_event.kind = "login_submit"
        /\ (last_event.username = << >> \/ last_event.password = << >>)) =>
          ~session_state.logged_in

\* the scan was invoked by the last run
C27_Witness ==
    /\ last_event.kind = "scan"
    /\ Called("engine.scan_gold_momentum")
    /\ session_state.logged_in
    /\ session_state.mt5_connected

\* C28: the console is marked connected (mt5_connected, with mt5_login and
\* mt5_server set) only if the most recent Connect attempt succeeded and no
\* Clear or mt5.shutdown() happened since; a Connect attempt that fails at
\* any step leaves the console marked not connected.
C28_ConnectedOnlyAfterSuccess ==
    /\ session_state.mt5_connected =>
          /\ last_connect = "succeeded"
          /\ ~shutdown_since
          /\ session_state.mt5_login # None
          /\ session_state.mt5_server # None
    /\ last_connect = "failed" => ~session_state.mt5_connected

-----------------------------------------------------------------------------
(* Properties of the outcome simulator *)

ReachesStop(c) ==
    IF trade.direction = "BUY" THEN c.low <= trade.stop ELSE c.high >= trade.stop

ReachesTarget(c) ==
    IF trade.direction = "BUY" THEN c.high >= trade.target ELSE c.low <= trade.target

\* C22: the stop is tested before the target on each candle, so a candle
\* whose range reaches both the stop and the target closes the trade as
\* HIT_STOP, never HIT_TARGET, for a long and for a short trade.
C22_StopBeforeTarget ==
    /\ (trigger # 0 /\ ReachesStop(candles[trigger])) => trade.outcome = "HIT_STOP"
    /\ trade.outcome = "HIT_TARGET" =>
          /\ trigger # 0
          /\ ReachesTarget(candles[trigger])
          /\ ~ReachesStop(candles[trigger])

\* a trade closed by a candle that reaches both levels
C22_Witness ==
    /\ trigger # 0
    /\ ReachesStop(candles[trigger])
    /\ ReachesTarget(candles[trigger])
    /\ trade.outcome = "HIT_STOP"

Touching == {k \in 1..Len(candles) : ReachesStop(candles[k]) \/ ReachesTarget(candles[k])}

SimOutcomeRight ==
    /\ trade.outcome \in {"OPEN", "HIT_TARGET", "HIT_STOP"}
    /\ trade.outcome # "OPEN" =>
          /\ trigger \in Touching
          /\ \A k \in Touching : trigger <= k
          /\ trade.outcome = "HIT_STOP" <=> ReachesStop(candles[trigger])
    /\ trade.outcome = "OPEN" =>
          /\ trigger = 0
          /\ \A k \in Touching : k > walk
    /\ SimDone => (trade.outcome = "OPEN" <=> Touching = {})

SimOutcomeMonotone ==
    /\ trade.outcome # "OPEN" => trade' = trade /\ trigger' = trigger
    /\ trade'.outcome # trade.outcome => trade.outcome = "OPEN"
    /\ [trade' EXCEPT !.outcome = "OPEN"] = [trade EXCEPT !.outcome = "OPEN"]

\* C23: a SimulatedTrade is in exactly one of OPEN, HIT_TARGET, HIT_STOP; its
\* outcome changes only from OPEN to a terminal state and never afterwards;
\* the terminal state is decided by the earliest candle after the
\* confirmation that touches the stop or the target; the trade stays OPEN
\* iff no candle up to the end of the data touches either level.
C23_OutcomeDecidedOnce == []SimOutcomeRight /\ [][SimOutcomeMonotone]_all_vars

\* a trade closed at its target by the third candle, the first to touch a level
C23_Witness ==
    /\ trade.outcome = "HIT_TARGET"
    /\ trigger = Len(candles)
    /\ trigger >= 2
    /\ Touching = {trigger}

====
